---- MODULE Spec2Model ----
(***************************************************************************)
(* Monthly report aggregation of Sanjaya-Observer-AI                       *)
(* (src/models/monthly_report_generator.py).                               *)
(*                                                                         *)
(* Python strings are sequences of chunks; a chunk is a TLA+ string that   *)
(* stands for one character ("{", "-", "7") or for a run of ordinary       *)
(* characters the program never looks inside ("curiosity", "no data",      *)
(* "Confidence level:").  Dates are such strings, compared the way Python  *)
(* and the record store compare text.  A float is the exact quotient       *)
(* <<numerator, denominator>>; its text is cut after the first decimal.    *)
(***************************************************************************)
EXTENDS Integers, Sequences, FiniteSets, TLC

VARIABLES
    observations,      \* rows of the "observations" table, in the order the store returns them
    goals,             \* rows of the "goals" table
    goal_alignments,   \* rows of the "goal_alignments" table
    call,              \* the operation last invoked, with its arguments
    response,          \* what the generation service does when asked for a completion
    result             \* the value the operation returned

vars == <<observations, goals, goal_alignments, call, response, result>>

NoCall == [op |-> "none"]
NoResponse == [kind |-> "unused"]

\* ---------------------------------------------------------------- bounds
MaxWindowObs == 2
MaxFreqObs == 3
MaxWeekObs == 3
MaxAlignments == 2

\* Two consecutive years, the second a leap year.
Years == {2023, 2024}
Months == 1 .. 12
Children == {"child-1", "child-2"}

\* ---------------------------------------------------------------- text
DigitChars == <<"0", "1", "2", "3", "4", "5", "6", "7", "8", "9">>

\* The code point order of the characters that occur in dates.
Ord(c) ==
    CASE c = "-" -> 45
      [] c = "0" -> 48 [] c = "1" -> 49 [] c = "2" -> 50 [] c = "3" -> 51
      [] c = "4" -> 52 [] c = "5" -> 53 [] c = "6" -> 54 [] c = "7" -> 55
      [] c = "8" -> 56 [] c = "9" -> 57
      [] c = ":" -> 58
      [] c = "T" -> 84

DigitValue(c) == Ord(c) - 48
IsDigit(c) == c \in {"0", "1", "2", "3", "4", "5", "6", "7", "8", "9"}

RECURSIVE IntToStr(_)
\* str(n) / f"{n}" for n >= 0
IntToStr(n) ==
    IF n < 10 THEN <<DigitChars[n + 1]>>
    ELSE IntToStr(n \div 10) \o <<DigitChars[(n % 10) + 1]>>

\* int() of the digits s[i..j]
RECURSIVE DigitsValue(_, _, _)
DigitsValue(s, i, j) ==
    IF i > j THEN 0 ELSE DigitsValue(s, i, j - 1) * 10 + DigitValue(s[j])

\* f"{n:02d}" for n >= 0
Pad2(n) == IF n < 10 THEN <<"0", DigitChars[n + 1]>> ELSE IntToStr(n)

RECURSIVE StrLessFrom(_, _, _)
StrLessFrom(a, b, i) ==
    IF i > Len(b) THEN FALSE
    ELSE IF i > Len(a) THEN TRUE
    ELSE IF Ord(a[i]) < Ord(b[i]) THEN TRUE
    ELSE IF Ord(a[i]) > Ord(b[i]) THEN FALSE
    ELSE StrLessFrom(a, b, i + 1)

\* a < b on text: lexicographic by code point, a proper prefix being smaller
StrLess(a, b) == StrLessFrom(a, b, 1)
StrLessEq(a, b) == a = b \/ StrLess(a, b)

\* ---------------------------------------------------------------- Python values
\* A value a Python expression yields, tagged with its type.  A dict keeps
\* its items in insertion order, as Python's does: a sequence of [k, v].
PyNone == [t |-> "none", v |-> 0]
PyBool(b) == [t |-> "bool", v |-> b]
PyInt(n) == [t |-> "int", v |-> n]
PyFloat(num, den) == [t |-> "float", v |-> <<num, den>>]
PyStr(s) == [t |-> "str", v |-> s]
PyList(s) == [t |-> "list", v |-> s]
PyDict(items) == [t |-> "dict", v |-> items]
Item(k, v) == [k |-> k, v |-> v]

IsDict(x) == x.t = "dict"
DictKeys(d) == [i \in DOMAIN d.v |-> d.v[i].k]
DictKeySet(d) == {d.v[i].k : i \in DOMAIN d.v}
HasKey(d, k) == \E i \in DOMAIN d.v : d.v[i].k = k
DictGet(d, k) == d.v[CHOOSE i \in DOMAIN d.v : d.v[i].k = k].v
\* d.get(k, default)
DictGetOr(d, k, default) == IF HasKey(d, k) THEN DictGet(d, k) ELSE default
\* d[k] = v: an existing key keeps its place, a new key goes last
DictSet(d, k, v) ==
    IF HasKey(d, k)
    THEN PyDict([i \in DOMAIN d.v |-> IF d.v[i].k = k THEN Item(k, v) ELSE d.v[i]])
    ELSE PyDict(Append(d.v, Item(k, v)))

SetMin(S) == CHOOSE x \in S : \A y \in S : x <= y

\* s[:n] on a sequence
Take(s, n) == SubSeq(s, 1, IF Len(s) < n THEN Len(s) ELSE n)
\* s[n:] on a sequence (n items dropped)
Drop(s, n) == SubSeq(s, n + 1, Len(s))

\* ---------------------------------------------------------------- JSON text
Whitespace == {" ", "\n", "\t", "\r"}
JsonLiterals == {"null", "true", "false"}

EscapeChunk(c) ==
    CASE c = "\"" -> <<"\\", "\"">>
      [] c = "\\" -> <<"\\", "\\">>
      [] c = "\n" -> <<"\\", "n">>
      [] OTHER -> <<c>>

RECURSIVE EscapeRange(_, _, _)
\* json.dumps's escaping of s[lo..hi], halving the range
EscapeRange(s, lo, hi) ==
    CASE lo > hi -> <<>>
      [] lo = hi -> EscapeChunk(s[lo])
      [] OTHER -> EscapeRange(s, lo, (lo + hi) \div 2) \o EscapeRange(s, (lo + hi) \div 2 + 1, hi)

\* json.dumps's escaping of a string's content
Escape(s) ==
    IF \A i \in DOMAIN s : s[i] \notin {"\"", "\\", "\n"} THEN s
    ELSE EscapeRange(s, 1, Len(s))

JsonString(s) == <<"\"">> \o Escape(s) \o <<"\"">>

\* repr() of a non-negative float num/den, cut after its first decimal
FloatRepr(num, den) ==
    IntToStr(num \div den) \o <<".">> \o IntToStr(((num * 10) \div den) % 10)

RECURSIVE JsonDumps(_)
RECURSIVE DumpItems(_, _)
RECURSIVE DumpElems(_, _)
\* json.dumps(x) with the default separators ", " and ": "
JsonDumps(x) ==
    CASE x.t = "none" -> <<"null">>
      [] x.t = "bool" -> IF x.v THEN <<"true">> ELSE <<"false">>
      [] x.t = "int" -> IF x.v < 0 THEN <<"-">> \o IntToStr(0 - x.v) ELSE IntToStr(x.v)
      [] x.t = "float" -> FloatRepr(x.v[1], x.v[2])
      [] x.t = "str" -> JsonString(x.v)
      [] x.t = "list" -> <<"[">> \o DumpElems(x.v, 1) \o <<"]">>
      [] x.t = "dict" -> <<"{">> \o DumpItems(x.v, 1) \o <<"}">>

DumpElems(s, i) ==
    IF i > Len(s) THEN <<>>
    ELSE (IF i > 1 THEN <<",", " ">> ELSE <<>>) \o JsonDumps(s[i]) \o DumpElems(s, i + 1)

DumpItems(s, i) ==
    IF i > Len(s) THEN <<>>
    ELSE (IF i > 1 THEN <<",", " ">> ELSE <<>>)
         \o JsonString(s[i].k) \o <<":", " ">> \o JsonDumps(s[i].v)
         \o DumpItems(s, i + 1)

ParseFail == [ok |-> FALSE, pos |-> 0, val |-> PyNone]
Parsed(pos, val) == [ok |-> TRUE, pos |-> pos, val |-> val]

RECURSIVE SkipWs(_, _)
SkipWs(s, i) ==
    IF i <= Len(s) /\ s[i] \in Whitespace THEN SkipWs(s, i + 1) ELSE i

RECURSIVE BackslashRun(_, _)
\* The number of backslashes that end at position j
BackslashRun(s, j) == IF j >= 1 /\ s[j] = "\\" THEN 1 + BackslashRun(s, j - 1) ELSE 0

\* The content of a string literal with its escapes undone
Unescape(c) ==
    IF \A h \in DOMAIN c : c[h] # "\\" THEN c
    ELSE LET Intro(h) == c[h] = "\\" /\ BackslashRun(c, h - 1) % 2 = 0
             Kept(h) == ~Intro(h)
             kept == SelectSeq([h \in DOMAIN c |-> h], Kept)
         IN  [n \in DOMAIN kept |->
                 IF kept[n] > 1 /\ Intro(kept[n] - 1) /\ c[kept[n]] = "n" THEN "\n"
                 ELSE c[kept[n]]]

\* A string literal's content is well formed: no raw control character, and
\* every backslash that starts an escape is followed by ", \ or n.
ContentOk(c) ==
    /\ \A h \in DOMAIN c : c[h] \notin {"\n", "\t", "\r"}
    /\ \A h \in DOMAIN c :
          (c[h] = "\\" /\ BackslashRun(c, h - 1) % 2 = 0) =>
              (h < Len(c) /\ c[h + 1] \in {"\"", "\\", "n"})

RECURSIVE ClosingQuote(_, _)
\* The position of the first quote at or after i that no backslash escapes,
\* looked for sixteen positions at a time; 0 when there is none.
ClosingQuote(s, i) ==
    LET hi == IF i + 15 < Len(s) THEN i + 15 ELSE Len(s)
        ends == {j \in i .. hi : s[j] = "\"" /\ BackslashRun(s, j - 1) % 2 = 0}
    IN  CASE ends # {} -> SetMin(ends)
          [] ends = {} /\ hi >= Len(s) -> 0
          [] OTHER -> ClosingQuote(s, hi + 1)

\* The string literal that has content c and its closing quote at position e
StringOf(e, c) ==
    IF ContentOk(c) THEN Parsed(e + 1, PyStr(Unescape(c))) ELSE ParseFail

\* The string literal from position i to its closing quote at e (0: none)
StringUpTo(s, i, e) == IF e = 0 THEN ParseFail ELSE StringOf(e, SubSeq(s, i, e - 1))

\* The string literal whose content starts at position i (after the opening
\* quote): it ends at the first quote that no backslash escapes.
ScanString(s, i) == StringUpTo(s, i, ClosingQuote(s, i))

RECURSIVE DigitsEnd(_, _)
DigitsEnd(s, i) == IF i <= Len(s) /\ IsDigit(s[i]) THEN DigitsEnd(s, i + 1) ELSE i

RECURSIVE Pow10(_)
Pow10(n) == IF n = 0 THEN 1 ELSE 10 * Pow10(n - 1)

\* The number whose integer part is s[a..b-1] and whose fraction, when there
\* is one, is s[b+1..c-1]
NumberOf(s, sign, a, b, c) ==
    IF b = a \/ (b > a + 1 /\ s[a] = "0") \/ c = b + 1 THEN ParseFail
    ELSE IF c = b THEN Parsed(b, PyInt(sign * DigitsValue(s, a, b - 1)))
    ELSE Parsed(c, PyFloat(sign * (DigitsValue(s, a, b - 1) * Pow10(c - b - 1)
                                   + DigitsValue(s, b + 1, c - 1)),
                           Pow10(c - b - 1)))

\* The digits of the integer part end before b; a point there starts a fraction.
FractionOf(s, sign, a, b) ==
    NumberOf(s, sign, a, b,
             IF b <= Len(s) /\ s[b] = "." THEN DigitsEnd(s, b + 1) ELSE b)

\* A number at position i: -? (0 | [1-9][0-9]*) (. [0-9]+)?
ScanNumber(s, i) ==
    IF s[i] = "-"
    THEN FractionOf(s, 0 - 1, i + 1, DigitsEnd(s, i + 1))
    ELSE FractionOf(s, 1, i, DigitsEnd(s, i))

RECURSIVE ParseValue(_, _)
RECURSIVE ParseElems(_, _, _)
RECURSIVE ParseItems(_, _, _)

\* value (, value)* ] from position i: the element joins the list; after it
\* the list ends, or another element follows.
ParseElems(s, i, acc) ==
    LET r == ParseValue(s, i)
        j == SkipWs(s, r.pos)
    IN  IF ~r.ok THEN ParseFail
        ELSE IF j > Len(s) THEN ParseFail
        ELSE IF s[j] = "]" THEN Parsed(j + 1, PyList(Append(acc, r.val)))
        ELSE IF s[j] = "," THEN ParseElems(s, j + 1, Append(acc, r.val))
        ELSE ParseFail

\* "key" : value (, "key" : value)* } from position i0: an item starts with
\* the quote of its key, then a colon and the value, which is stored under
\* the key (a repeated key keeps its last value); after it the object ends,
\* or another item follows.
ParseItems(s, i0, acc) ==
    LET i == SkipWs(s, i0)
        key == IF i <= Len(s) /\ s[i] = "\"" THEN ScanString(s, i + 1) ELSE ParseFail
        c == SkipWs(s, key.pos)
        r == IF key.ok /\ c <= Len(s) /\ s[c] = ":" THEN ParseValue(s, c + 1)
             ELSE ParseFail
        j == SkipWs(s, r.pos)
    IN  IF ~r.ok THEN ParseFail
        ELSE IF j > Len(s) THEN ParseFail
        ELSE IF s[j] = "}" THEN Parsed(j + 1, DictSet(acc, key.val.v, r.val))
        ELSE IF s[j] = "," THEN ParseItems(s, j + 1, DictSet(acc, key.val.v, r.val))
        ELSE ParseFail

\* After an opening brace, at position j: an empty object, or items
OpenObject(s, j) ==
    IF j <= Len(s) /\ s[j] = "}" THEN Parsed(j + 1, PyDict(<<>>))
    ELSE ParseItems(s, j, PyDict(<<>>))

\* After an opening bracket, at position j: an empty list, or elements
OpenList(s, j) ==
    IF j <= Len(s) /\ s[j] = "]" THEN Parsed(j + 1, PyList(<<>>))
    ELSE ParseElems(s, j, <<>>)

\* One JSON value at position i
ValueAt(s, i) ==
    CASE i > Len(s) -> ParseFail
      [] i <= Len(s) /\ s[i] = "{" -> OpenObject(s, SkipWs(s, i + 1))
      [] i <= Len(s) /\ s[i] = "[" -> OpenList(s, SkipWs(s, i + 1))
      [] i <= Len(s) /\ s[i] = "\"" -> ScanString(s, i + 1)
      [] i <= Len(s) /\ s[i] = "null" -> Parsed(i + 1, PyNone)
      [] i <= Len(s) /\ s[i] = "true" -> Parsed(i + 1, PyBool(TRUE))
      [] i <= Len(s) /\ s[i] = "false" -> Parsed(i + 1, PyBool(FALSE))
      [] i <= Len(s) /\ (s[i] = "-" \/ IsDigit(s[i])) -> ScanNumber(s, i)
      [] OTHER -> ParseFail

\* One JSON value starting at position i0 (leading whitespace skipped)
ParseValue(s, i0) == ValueAt(s, SkipWs(s, i0))

\* The whole text must be one value, whitespace around it allowed.
WholeText(s, r) == IF r.ok /\ SkipWs(s, r.pos) = Len(s) + 1 THEN r ELSE ParseFail

\* json.loads(s): [ok |-> FALSE] stands for the ValueError it raises.
JsonLoads(s) == WholeText(s, ParseValue(s, 1))

\* ---------------------------------------------------------------- calendar
IsLeap(y) == (y % 4 = 0 /\ y % 100 # 0) \/ y % 400 = 0

DaysInMonth(y, m) ==
    IF m = 2 THEN (IF IsLeap(y) THEN 29 ELSE 28)
    ELSE IF m \in {4, 6, 9, 11} THEN 30 ELSE 31

\* The text the upload form stores for a session date: "%Y-%m-%d".
DateStr(y, m, d) == IntToStr(y) \o <<"-">> \o Pad2(m) \o <<"-">> \o Pad2(d)

\* datetime.strptime(s, "%Y-%m-%d") on the zero-padded form: four digits, a
\* dash, two digits, a dash, two digits and nothing after them, naming a day
\* of the calendar.  Anything else raises ValueError.
StrptimeOk(s) ==
    /\ Len(s) = 10
    /\ \A i \in {1, 2, 3, 4, 6, 7, 9, 10} : IsDigit(s[i])
    /\ s[5] = "-" /\ s[8] = "-"
    /\ LET y == DigitsValue(s, 1, 4)
           m == DigitsValue(s, 6, 7)
           d == DigitsValue(s, 9, 10)
       IN  /\ y >= 1
           /\ m \in 1 .. 12
           /\ d \in 1 .. DaysInMonth(y, m)

Strptime(s) ==
    [year |-> DigitsValue(s, 1, 4),
     month |-> DigitsValue(s, 6, 7),
     day |-> DigitsValue(s, 9, 10)]

\* ---------------------------------------------------------------- rows
\* An observation row with nothing but its key, owner and date filled in: the
\* text columns are empty and full_data is the JSON text of an empty object.
ObsRow(id, student, date) ==
    [id |-> id, student_id |-> student, date |-> date,
     observations |-> <<>>, strengths |-> <<>>, areas_of_development |-> <<>>,
     recommendations |-> <<>>, theme_of_day |-> <<>>, curiosity_seed |-> <<>>,
     full_data |-> <<"{", "}">>]

\* ---------------------------------------------------------------- get_month_data
\* start_date and end_date of the window of (year, month)
StartDate(year, month) == IntToStr(year) \o <<"-">> \o Pad2(month) \o <<"-", "0", "1">>

EndDate(year, month) ==
    IF month = 12
    THEN IntToStr(year + 1) \o <<"-", "0", "1", "-", "0", "1">>
    ELSE IntToStr(year) \o <<"-">> \o Pad2(month + 1) \o <<"-", "0", "1">>

InWindowClosed(date, year, month) ==
    /\ StrLessEq(StartDate(year, month), date)
    /\ StrLessEq(date, EndDate(year, month))

\* .gte("date", start_date).lt("date", end_date), and the same test in Python
InWindow(date, year, month) ==
    /\ StrLessEq(StartDate(year, month), date)
    /\ StrLess(date, EndDate(year, month))

get_month_data(table, child_id, year, month) ==
    LET Keep(row) == row.student_id = child_id /\ InWindow(row.date, year, month)
    IN  SelectSeq(table, Keep)

\* ---------------------------------------------------------------- frequency tables
\* What "for x in value" walks over, as a sequence of values.  An int, a float,
\* a bool or None is not iterable (TypeError); a str yields its characters, a
\* dict its keys.
IsIterable(x) == x.t \in {"list", "str", "dict"}
IterItems(x) ==
    CASE x.t = "list" -> x.v
      [] x.t = "str" -> [i \in DOMAIN x.v |-> PyStr(<<x.v[i]>>)]
      [] x.t = "dict" -> [i \in DOMAIN x.v |-> PyStr(x.v[i].k)]

\* A list or a dict cannot be a dict key (TypeError: unhashable type).
IsHashable(x) == x.t \notin {"list", "dict"}
\* The key an element is counted under: a string is its own key; any other
\* scalar is named by the text json.dumps later writes for that key.
CountKey(x) == IF x.t = "str" THEN x.v ELSE JsonDumps(x)

RECURSIVE CountElems(_, _, _)
\* for strength in strengths: counts[strength] = counts.get(strength, 0) + 1
\* An unhashable element raises; the enclosing "except: pass" keeps the counts
\* made so far and goes on with the next observation.
CountElems(counts, elems, j) ==
    IF j > Len(elems) THEN counts
    ELSE IF ~IsHashable(elems[j]) THEN counts
    ELSE LET k == CountKey(elems[j])
         IN  CountElems(DictSet(counts, k, PyInt(DictGetOr(counts, k, PyInt(0)).v + 1)),
                        elems, j + 1)

\* What a loaded column adds: the items of the value when json.loads
\* succeeded and the value can be iterated, nothing otherwise (the exception
\* is passed over).
LoadedItems(r) ==
    IF r.ok /\ IsIterable(r.val) THEN [ok |-> TRUE, items |-> IterItems(r.val)]
    ELSE [ok |-> FALSE, items |-> <<>>]

\* The list a stored column yields: json.loads of its text.  [ok |-> FALSE]
\* when the text is empty (falsy, the column is skipped), is not JSON, or holds
\* a value that cannot be iterated.
ColumnItems(text) ==
    IF text = <<>> THEN [ok |-> FALSE, items |-> <<>>] ELSE LoadedItems(JsonLoads(text))

RECURSIVE CountColumn(_, _, _, _)
CountColumn(rows, column, i, counts) ==
    IF i > Len(rows) THEN counts
    ELSE CountColumn(rows, column, i + 1,
                     CountElems(counts, ColumnItems(rows[i][column]).items, 1))

\* An item put before the items of equal count: what an unstable, or a
\* reversed ascending, sort would do.
InsertByCountUnstable(sorted, item) ==
    LET p == Cardinality({i \in DOMAIN sorted : sorted[i].v.v > item.v.v})
    IN  SubSeq(sorted, 1, p) \o <<item>> \o SubSeq(sorted, p + 1, Len(sorted))

\* One step of sorted(items, key=lambda x: x[1], reverse=True): the item goes
\* after every item whose count is at least its own (the sort is stable, and
\* reverse=True keeps equal items in their original order).
InsertByCount(sorted, item) ==
    LET p == Cardinality({i \in DOMAIN sorted : sorted[i].v.v >= item.v.v})
    IN  SubSeq(sorted, 1, p) \o <<item>> \o SubSeq(sorted, p + 1, Len(sorted))

RECURSIVE SortByCountDesc(_, _, _)
SortByCountDesc(items, i, sorted) ==
    IF i > Len(items) THEN sorted
    ELSE SortByCountDesc(items, i + 1, InsertByCount(sorted, items[i]))

get_strength_areas(rows) ==
    PyDict(SortByCountDesc(CountColumn(rows, "strengths", 1, PyDict(<<>>)).v, 1, <<>>))

get_development_areas(rows) ==
    PyDict(SortByCountDesc(CountColumn(rows, "areas_of_development", 1, PyDict(<<>>)).v, 1, <<>>))

\* ---------------------------------------------------------------- rating extraction
\* str.lower() on the words of the rating vocabularies; any other chunk is
\* taken as already lower case.
Lower(c) ==
    CASE c = "Strong" -> "strong" [] c = "Moderate" -> "moderate" [] c = "Weak" -> "weak"
      [] c = "Clear" -> "clear" [] c = "Unclear" -> "unclear"
      [] c = "Active" -> "active" [] c = "Passive" -> "passive"
      [] c = "Logical" -> "logical" [] c = "Disorganized" -> "disorganized"
      [] c = "Excellent" -> "excellent" [] c = "Good" -> "good" [] c = "Fair" -> "fair"
      [] c = "Needs" -> "needs" [] c = "Work" -> "work"
      [] OTHER -> c

\* The chunks \w+ matches whole: the rating words, in either case, and the
\* words of a report's running text.
WordChunks ==
    {"Strong", "Moderate", "Weak", "Clear", "Unclear", "Active", "Passive", "Logical",
     "Disorganized", "Excellent", "Good", "Fair", "Needs", "Work",
     "strong", "moderate", "weak", "clear", "unclear", "active", "passive", "logical",
     "disorganized", "excellent", "good", "fair", "needs", "work",
     "built", "a", "tower"}

NoNewline(text, a, b) == \A r \in a .. b : text[r] # "\n"

NoMatch == [found |-> FALSE, value |-> ""]
Match(value) == [found |-> TRUE, value |-> value]

\* re.search(r"<label>.*?(<vocab>)", text, re.IGNORECASE).group(1): the
\* leftmost label that has a vocabulary word after it on its line, and the
\* first such word, as it is written in the text.
RatingGroup(text, label, vocab) ==
    LET WordsAfter(p) ==
            {q \in (p + 1) .. Len(text) :
                Lower(text[q]) \in vocab /\ NoNewline(text, p + 1, q - 1)}
        starts == {p \in DOMAIN text : text[p] = label /\ WordsAfter(p) # {}}
    IN  IF starts = {} THEN NoMatch
        ELSE Match(text[SetMin(WordsAfter(SetMin(starts)))])

\* match.group(1).lower() when there is a match
LowerGroup(m) == IF m.found THEN Match(Lower(m.value)) ELSE NoMatch

\* The search and the lower() of lines 163-167
SearchRating(text, label, vocab) == LowerGroup(RatingGroup(text, label, vocab))

\* re.search(r"Participation.*?:.*?(Active|Moderate|Passive)", ...): as above
\* with a colon between the label and the word, all on one line.
RatingGroupAfterColon(text, label, vocab) ==
    LET WordsAfter(p) ==
            {q \in (p + 2) .. Len(text) :
                /\ Lower(text[q]) \in vocab
                /\ NoNewline(text, p + 1, q - 1)
                /\ \E c \in (p + 1) .. (q - 1) : text[c] = ":"}
        starts == {p \in DOMAIN text : text[p] = label /\ WordsAfter(p) # {}}
    IN  IF starts = {} THEN NoMatch
        ELSE Match(text[SetMin(WordsAfter(SetMin(starts)))])

\* The search and the lower() of lines 181-187
SearchRatingAfterColon(text, label, vocab) ==
    LowerGroup(RatingGroupAfterColon(text, label, vocab))

\* re.compile(rf"{area}.*?\|.*?(\w+)\s*\|", re.IGNORECASE).search(text): after
\* the leftmost area label that matches, a bar on its line, then the first word
\* on that line that has only white space between it and the next bar.
SearchCell(text, area) ==
    LET BeforeBar(q) ==
            \E e \in (q + 1) .. Len(text) :
                text[e] = "|" /\ \A r \in (q + 1) .. (e - 1) : text[r] \in Whitespace
        WordsAfter(p) ==
            {q \in (p + 2) .. Len(text) :
                /\ text[q] \in WordChunks
                /\ BeforeBar(q)
                /\ NoNewline(text, p + 1, q - 1)
                /\ \E b \in (p + 1) .. (q - 1) : text[b] = "|"}
        starts == {p \in DOMAIN text : text[p] = area /\ WordsAfter(p) # {}}
    IN  IF starts = {} THEN NoMatch
        ELSE Match(Lower(text[SetMin(WordsAfter(SetMin(starts)))]))

\* report = full_data.get("formatted_report", "") on what json.loads gave:
\* [ok |-> FALSE] when a step raises (text that is not JSON, a value that is
\* not a dict, a report that is not a string), which the loop's except turns
\* into "continue".
ReportOf(r) ==
    IF ~r.ok \/ r.val.t # "dict" THEN [ok |-> FALSE, text |-> <<>>]
    ELSE IF ~HasKey(r.val, <<"formatted_report">>) THEN [ok |-> TRUE, text |-> <<>>]
    ELSE IF DictGet(r.val, <<"formatted_report">>).t # "str" THEN [ok |-> FALSE, text |-> <<>>]
    ELSE [ok |-> TRUE, text |-> DictGet(r.val, <<"formatted_report">>).v]

\* full_data = json.loads(obs.get("full_data", "{}")), then the report
FormattedReport(row) == ReportOf(JsonLoads(row.full_data))

CommSkillNames == <<"confidence", "clarity", "participation", "sequencing">>
GrowthAreaNames ==
    <<"Intellectual", "Emotional", "Social", "Creativity", "Physical",
      "Character/Values", "Planning/Independence">>

\* The search of lines 162-198 (and of lines 865-887) for one skill: group(1)
SkillGroup(text, skill) ==
    CASE skill = "confidence" ->
            RatingGroup(text, "Confidence level:", {"strong", "moderate", "weak"})
      [] skill = "clarity" ->
            RatingGroup(text, "Clarity of thought:", {"clear", "moderate", "unclear"})
      [] skill = "participation" ->
            RatingGroupAfterColon(text, "Participation", {"active", "moderate", "passive"})
      [] skill = "sequencing" ->
            RatingGroup(text, "Sequence of explanation:",
                        {"logical", "moderate", "disorganized"})

\* The search of lines 162-198 for one skill, lowered.
SkillMatch(text, skill) == LowerGroup(SkillGroup(text, skill))

\* The values of the matches that were found, in order
FoundValues(matches) ==
    LET Found(m) == m.found
        found == SelectSeq(matches, Found)
    IN  [j \in DOMAIN found |-> found[j].value]

CountOf(values, v) == Cardinality({i \in DOMAIN values : values[i] = v})
\* max(set(values), key=values.count): a most frequent value.  Among equally
\* frequent ones max() takes the first the set yields, and a set of strings
\* yields them in hash order, which changes from process to process: every
\* most frequent value is a possible outcome.
MostCommon(values) ==
    {values[i] : i \in {j \in DOMAIN values :
                           \A h \in DOMAIN values :
                               CountOf(values, values[h]) <= CountOf(values, values[j])}}

SummaryChoices(values) == IF values = <<>> THEN {"no data"} ELSE MostCommon(values)

\* What one observation's report gives for a skill
SkillOfReport(report, skill) ==
    IF report.ok THEN SkillMatch(report.text, skill) ELSE NoMatch

\* What one observation's report gives for a growth area
AreaOfReport(report, area) ==
    IF report.ok THEN SearchCell(report.text, area) ELSE NoMatch

\* The list a skill accumulates over the observations, in order: an
\* observation whose report cannot be read is skipped.
SkillRatings(rows, skill) ==
    FoundValues([i \in DOMAIN rows |-> SkillOfReport(FormattedReport(rows[i]), skill)])

\* The list a growth area accumulates over the observations, in order
AreaRatings(rows, area) ==
    FoundValues([i \in DOMAIN rows |-> AreaOfReport(FormattedReport(rows[i]), area)])

\* The dict a choice of one rating per name stands for.
RatingDict(names, choice) ==
    PyDict([i \in DOMAIN names |-> Item(<<names[i]>>, PyStr(<<choice[i]>>))])

RECURSIVE ChoiceSeqs(_, _)
\* The sequences that take their i-th element from the i-th set.
ChoiceSeqs(options, i) ==
    IF i > Len(options) THEN {<<>>}
    ELSE {<<x>> \o rest : x \in options[i], rest \in ChoiceSeqs(options, i + 1)}

\* The values get_communication_skills can return for the observations: for
\* every skill its most common rating, or "no data".
get_communication_skills(rows) ==
    {RatingDict(CommSkillNames, c) :
        c \in ChoiceSeqs([i \in DOMAIN CommSkillNames |->
                             SummaryChoices(SkillRatings(rows, CommSkillNames[i]))], 1)}

\* The values get_growth_metrics can return for the observations.
get_growth_metrics(rows) ==
    {RatingDict(GrowthAreaNames, c) :
        c \in ChoiceSeqs([i \in DOMAIN GrowthAreaNames |->
                             SummaryChoices(AreaRatings(rows, GrowthAreaNames[i]))], 1)}

\* ---------------------------------------------------------------- weekly trends
WeekKey(n) == <<"Week", " ", DigitChars[n + 1]>>

WeekOfMonthOffByOne(day) == day \div 7

\* week_of_month = (obs_date.day - 1) // 7
WeekOfMonth(day) == (day - 1) \div 7

RECURSIVE WeeklyCounts(_, _, _)
\* The loop of _calculate_weekly_trends over weekly_counts = [0, 0, 0, 0, 0]:
\* a date strptime rejects is skipped by the bare except.
WeeklyCounts(rows, i, counts) ==
    IF i > Len(rows) THEN counts
    ELSE IF ~StrptimeOk(rows[i].date) THEN WeeklyCounts(rows, i + 1, counts)
    ELSE LET w == WeekOfMonth(Strptime(rows[i].date).day)
         IN  IF w < 5
             THEN WeeklyCounts(rows, i + 1, [counts EXCEPT ![w + 1] = @ + 1])
             ELSE WeeklyCounts(rows, i + 1, counts)

RECURSIVE WeekItems(_, _)
\* {f"Week {i + 1}": count for i, count in enumerate(weekly_counts) if count > 0}
WeekItems(counts, i) ==
    IF i > Len(counts) THEN <<>>
    ELSE (IF counts[i] > 0 THEN <<Item(WeekKey(i), PyInt(counts[i]))>> ELSE <<>>)
         \o WeekItems(counts, i + 1)

calculate_weekly_trends(rows) ==
    PyDict(WeekItems(WeeklyCounts(rows, 1, <<0, 0, 0, 0, 0>>), 1))

\* ---------------------------------------------------------------- get_goal_progress
\* .eq(column, value): the rows of a table a predicate keeps, in table order
RowsWhere(table, column, value) ==
    LET Keep(row) == row[column] = value IN SelectSeq(table, Keep)

\* An alignment is kept whatever the date of the observation it points to.
IsRelevantAnyDate(obs, alignment, year, month) ==
    RowsWhere(obs, "id", alignment.report_id) # <<>>

\* Lines 76-86: the observation the alignment points to is looked up by id; the
\* alignment is relevant when one is found and its date is in the window.
IsRelevant(obs, alignment, year, month) ==
    LET report == RowsWhere(obs, "id", alignment.report_id)
    IN  report # <<>> /\ InWindow(report[1].date, year, month)

RECURSIVE SumScores(_, _)
SumScores(alignments, i) ==
    IF i > Len(alignments) THEN 0
    ELSE alignments[i].alignment_score + SumScores(alignments, i + 1)

\* The entry appended for a goal with its relevant alignments (lines 89-102).
GoalEntry(goal, relevant) ==
    PyDict(<<Item(<<"goal_text">>, PyStr(goal.goal_text)),
             Item(<<"avg_score">>, PyFloat(SumScores(relevant, 1), Len(relevant))),
             Item(<<"progress_trend">>,
                  PyList([i \in DOMAIN relevant |-> PyInt(relevant[i].alignment_score)])),
             Item(<<"num_observations">>, PyInt(Len(relevant))),
             Item(<<"status">>, PyStr(goal.status))>>)

RECURSIVE GoalProgressLoop(_, _, _, _, _, _)
GoalProgressLoop(obs, goalRows, alignmentRows, year, month, i) ==
    IF i > Len(goalRows) THEN <<>>
    ELSE LET alignments == RowsWhere(alignmentRows, "goal_id", goalRows[i].id)
             Rel(a) == IsRelevant(obs, a, year, month)
             relevant == SelectSeq(alignments, Rel)
         IN  (IF relevant # <<>> THEN <<GoalEntry(goalRows[i], relevant)>> ELSE <<>>)
             \o GoalProgressLoop(obs, goalRows, alignmentRows, year, month, i + 1)

get_goal_progress(obs, goalTable, alignmentTable, child_id, year, month) ==
    PyList(GoalProgressLoop(obs, RowsWhere(goalTable, "child_id", child_id),
                            alignmentTable, year, month, 1))

\* ---------------------------------------------------------------- generate_monthly_summary_json_format
SetMax(S) == CHOOSE x \in S : \A y \in S : y <= x

\* str.strip()
Strip(s) ==
    LET solid == {i \in DOMAIN s : s[i] \notin Whitespace}
    IN  IF solid = {} THEN <<>> ELSE SubSeq(s, SetMin(solid), SetMax(solid))

StartsWith(s, prefix) == Len(s) >= Len(prefix) /\ SubSeq(s, 1, Len(prefix)) = prefix
EndsWith(s, suffix) ==
    Len(s) >= Len(suffix) /\ SubSeq(s, Len(s) - Len(suffix) + 1, Len(s)) = suffix

\* The chunk that stands for the backquote character, which a TLA+ string
\* cannot hold
Backquote == "<backquote>"
Fence == <<Backquote, Backquote, Backquote>>
JsonFence == Fence \o <<"json">>

\* Lines 659-660: the opening fence that names json is taken off, then strip()
StripJsonFence(cleaned) ==
    IF StartsWith(cleaned, JsonFence) THEN Strip(Drop(cleaned, Len(JsonFence))) ELSE cleaned

\* Lines 661-662: an opening fence of three backquotes is taken off, then strip()
StripOpeningFence(cleaned) ==
    IF StartsWith(cleaned, Fence) THEN Strip(Drop(cleaned, Len(Fence))) ELSE cleaned

\* The closing fence is left where it is.
KeepClosingFence(cleaned) == cleaned

\* Lines 663-664: a closing fence is taken off, cleaned[:-3].strip()
StripClosingFence(cleaned) ==
    IF EndsWith(cleaned, Fence) THEN Strip(SubSeq(cleaned, 1, Len(cleaned) - 3)) ELSE cleaned

\* Lines 658-664: the completion with white space and code fences taken off
Cleaned(text) == StripClosingFence(StripOpeningFence(StripJsonFence(Strip(text))))

\* Any text passes for JSON.
AnyText(cleaned) == TRUE

\* try: json.loads(cleaned) ... except: whether the validation succeeds
ValidJson(cleaned) == JsonLoads(cleaned).ok

\* calendar.month_name[month]
MonthName(month) ==
    <<"January", "February", "March", "April", "May", "June", "July", "August",
      "September", "October", "November", "December">>[month]

\* f"Monthly-{year}-{month:02d}-Report"
ReportId(year, month) ==
    <<"Monthly", "-">> \o IntToStr(year) \o <<"-">> \o Pad2(month) \o <<"-", "Report">>

\* f"{calendar.month_name[month]} {year}"
PeriodText(year, month) == <<MonthName(month), " ">> \o IntToStr(year)

\* f"{num / den:.1f}", rounding the exact quotient to the nearest tenth
FormatOneDecimal(num, den) ==
    LET tenths == (20 * num + den) \div (2 * den)
    IN  IntToStr(tenths \div 10) \o <<".", DigitChars[(tenths % 10) + 1]>>

RECURSIVE AllColumnItems(_, _, _)
\* Lines 421-456 for one column: every observation whose column is filled in
\* and yields something iterable extends the list; the others are passed over.
AllColumnItems(rows, column, i) ==
    IF i > Len(rows) THEN <<>>
    ELSE ColumnItems(rows[i][column]).items \o AllColumnItems(rows, column, i + 1)

\* Whether a counting loop of lines 468-474 gets through: an element that is a
\* list or a dict raises TypeError there.
AllHashable(elems) == \A i \in DOMAIN elems : IsHashable(elems[i])

\* strength_counts / development_counts: the counts in first-seen order, unsorted
CountAll(elems) == CountElems(PyDict(<<>>), elems, 1)

\* list(counts.keys()): the distinct elements in first-seen order
KeyList(elems) ==
    LET First(i) == \A j \in 1 .. (i - 1) : elems[j] # elems[i]
        idx == SelectSeq([i \in DOMAIN elems |-> i], First)
    IN  [n \in DOMAIN idx |-> elems[idx[n]]]

\* dict(list(counts.items())[:n])
FirstItems(counts, n) == PyDict(Take(counts.v, n))

\* max(counts.keys(), key=counts.get): the first key that has the highest count
MaxKey(counts) ==
    LET best == SetMin({i \in DOMAIN counts.v :
                           \A j \in DOMAIN counts.v : counts.v[j].v.v <= counts.v[i].v.v})
    IN  counts.v[best].k

\* len([g for g in goal_progress if g.get("status") == status])
StatusCount(goal_progress, status) ==
    Cardinality({i \in DOMAIN goal_progress :
                    DictGetOr(goal_progress[i], <<"status">>, PyNone) = PyStr(<<status>>)})

\* (completed / (active + completed)) * 100 if (active + completed) > 0 else 0
CompletionRate(active, completed) ==
    IF active + completed > 0 THEN PyFloat(completed * 100, active + completed) ELSE PyInt(0)

\* _calculate_learning_metrics
calculate_learning_metrics(rows) ==
    IF rows = <<>> THEN PyDict(<<>>)
    ELSE PyDict(<<
        Item(<<"session_frequency">>, PyInt(Len(rows))),
        Item(<<"theme_diversity">>,
             PyInt(Cardinality({rows[i].theme_of_day : i \in DOMAIN rows} \ {<<>>}))),
        Item(<<"curiosity_engagement">>,
             PyInt(Cardinality({rows[i].curiosity_seed : i \in DOMAIN rows} \ {<<>>}))),
        Item(<<"learning_consistency">>,
             PyStr(<<IF Len(rows) > 15 THEN "High"
                     ELSE IF Len(rows) > 8 THEN "Medium" ELSE "Low">>)) >>)

\* A string of one chunk
Txt(chunk) == PyStr(<<chunk>>)

\* g["goal_text"][:30] and g["avg_score"] can be taken: the entry has both keys
\* and its goal text is a string (a goal stored without text has None there,
\* and None[:30] raises TypeError).
GoalEntryOk(g) ==
    /\ HasKey(g, <<"goal_text">>) /\ HasKey(g, <<"avg_score">>)
    /\ DictGet(g, <<"goal_text">>).t = "str"

\* Lines 481-580: the chart suggestions, in the order they are appended.  The
\* pictograph that opens each title is left out.
graph_suggestions(total_observations, active_goals, completed_goals, goal_progress, strength_counts, development_counts, weekly_trends, learning_metrics) ==
    (IF total_observations > 0
     THEN << PyDict(<<
                Item(<<"type">>, Txt("line_chart")),
                Item(<<"title">>, Txt("Weekly Observation Trends")),
                Item(<<"description">>,
                     PyStr(<<"Shows observation frequency across ">>
                           \o IntToStr(Len(weekly_trends.v)) \o <<" weeks in the month">>)),
                Item(<<"data">>, weekly_trends),
                Item(<<"xAxis">>, Txt("Week")),
                Item(<<"yAxis">>, Txt("Number of Observations")) >>),
             PyDict(<<
                Item(<<"type">>, Txt("bar_chart")),
                Item(<<"title">>, Txt("Daily Learning Activities")),
                Item(<<"description">>,
                     PyStr(<<"Distribution of ">> \o IntToStr(total_observations)
                           \o <<" learning sessions throughout the month">>)),
                Item(<<"data">>,
                     PyDict(<<Item(<<"total_sessions">>, PyInt(total_observations))>>)),
                Item(<<"insights">>,
                     PyStr(<<"Average of ">> \o FormatOneDecimal(total_observations, 30)
                           \o <<" sessions per day">>)) >>) >>
     ELSE <<>>)
    \o
    (IF strength_counts.v # <<>>
     THEN << PyDict(<<
                Item(<<"type">>, Txt("pie_chart")),
                Item(<<"title">>, Txt("Strength Areas Distribution")),
                Item(<<"description">>,
                     PyStr(<<"Breakdown of ">> \o IntToStr(Len(strength_counts.v))
                           \o <<" different strength categories">>)),
                Item(<<"data">>, FirstItems(strength_counts, 8)),
                Item(<<"insights">>,
                     PyStr(<<"Most frequent strength: ">> \o MaxKey(strength_counts))) >>),
             PyDict(<<
                Item(<<"type">>, Txt("donut_chart")),
                Item(<<"title">>, Txt("Top 5 Strengths Focus")),
                Item(<<"description">>, Txt("Concentrated view of primary strength areas")),
                Item(<<"data">>, FirstItems(strength_counts, 5)) >>) >>
     ELSE <<>>)
    \o
    (IF development_counts.v # <<>>
     THEN << PyDict(<<
                Item(<<"type">>, Txt("horizontal_bar")),
                Item(<<"title">>, Txt("Development Priority Areas")),
                Item(<<"description">>,
                     Txt("Focus areas requiring attention with frequency analysis")),
                Item(<<"data">>, FirstItems(development_counts, 6)),
                Item(<<"insights">>,
                     PyStr(<<"Primary development focus: ">>
                           \o MaxKey(development_counts))) >>) >>
     ELSE <<>>)
    \o
    (IF goal_progress # <<>>
     THEN << PyDict(<<
                Item(<<"type">>, Txt("gauge_chart")),
                Item(<<"title">>, Txt("Goal Achievement Rate")),
                Item(<<"description">>, Txt("Monthly goal completion progress")),
                Item(<<"data">>,
                     PyDict(<<
                        Item(<<"completion_rate">>,
                             CompletionRate(active_goals, completed_goals)),
                        Item(<<"completed">>, PyInt(completed_goals)),
                        Item(<<"active">>, PyInt(active_goals)),
                        Item(<<"total">>, PyInt(active_goals + completed_goals)) >>)),
                Item(<<"insights">>,
                     PyStr((IF active_goals + completed_goals > 0
                            THEN FormatOneDecimal(completed_goals * 100,
                                                  active_goals + completed_goals)
                            ELSE <<"0", ".", "0">>)
                           \o <<"% completion rate this month">>)) >>),
             PyDict(<<
                Item(<<"type">>, Txt("progress_bars")),
                Item(<<"title">>, Txt("Individual Goal Progress")),
                Item(<<"description">>, Txt("Detailed progress tracking for each goal")),
                Item(<<"data">>,
                     PyList([i \in DOMAIN Take(goal_progress, 5) |->
                        PyDict(<<
                           Item(<<"goal">>,
                                PyStr(Take(DictGet(goal_progress[i], <<"goal_text">>).v, 30))),
                           Item(<<"progress">>,
                                DictGet(goal_progress[i], <<"avg_score">>)) >>)])) >>) >>
     ELSE <<>>)
    \o
    (IF learning_metrics.v # <<>>
     THEN << PyDict(<<
                Item(<<"type">>, Txt("radar_chart")),
                Item(<<"title">>, Txt("Learning Engagement Profile")),
                Item(<<"description">>, Txt("Multi-dimensional view of learning engagement")),
                Item(<<"data">>, learning_metrics),
                Item(<<"insights">>,
                     Txt("Comprehensive engagement across different learning domains")) >>) >>
     ELSE <<>>)

\* The keys of the JSON structure the prompt asks for (lines 604-641).
PromptKeys ==
    <<"studentName", "studentId", "className", "date", "observations", "strengths",
      "areasOfDevelopment", "recommendations", "communicationSkills", "growthMetrics",
      "monthlyMetrics", "learningAnalytics", "suggestedGraphs", "progressInsights">>
PromptMonthlyMetricsKeys ==
    <<"totalObservations", "activeGoals", "completedGoals", "goalCompletionRate",
      "topStrengths", "developmentFocus", "weeklyTrends", "averageSessionsPerWeek">>
PromptLearningAnalyticsKeys ==
    <<"engagement Level", "learning Velocity", "social Development", "cognitive Growth",
      "creativity Index", "independence Level">>

\* The key sets of the requested structure; communicationSkills and
\* growthMetrics are written there as json.dumps(comm_skills) and
\* json.dumps(growth_metrics), so their keys are those dicts' keys.
PromptStructure(comm_skills, growth_metrics) ==
    [top |-> {<<PromptKeys[i]>> : i \in DOMAIN PromptKeys},
     monthlyMetrics |-> {<<PromptMonthlyMetricsKeys[i]>> : i \in DOMAIN PromptMonthlyMetricsKeys},
     communicationSkills |-> DictKeySet(comm_skills),
     growthMetrics |-> DictKeySet(growth_metrics)]

\* The texts both fallbacks build from the child's name and the period
ObservationsText(child_name, n, year, month) ==
    <<"Monthly learning summary for ">> \o child_name \o <<" covering ">> \o IntToStr(n)
    \o <<" observation sessions in ">> \o PeriodText(year, month)
    \o <<". The student demonstrated consistent engagement and progress across various learning domains.">>

FallbackRecommendations(child_name) ==
    PyList(<< PyStr(<<"Continue supporting ">> \o child_name \o <<"'s learning journey">>),
              Txt("Maintain current engagement strategies"),
              Txt("Monitor progress in key development areas") >>)

FallbackLearningAnalytics ==
    PyDict(<< Item(<<"engagement Level">>, Txt("Medium")),
              Item(<<"learning Velocity">>, Txt("Steady")),
              Item(<<"social Development">>, Txt("Progressing")),
              Item(<<"cognitive Growth">>, Txt("Developing")),
              Item(<<"creativity Index">>, Txt("Good")),
              Item(<<"independence Level">>, Txt("Growing")) >>)

FallbackInsights(child_name) ==
    PyList(<< PyStr(child_name \o <<" showed consistent engagement throughout the month">>),
              Txt("Learning patterns indicate steady progress"),
              Txt("Areas of strength are well established"),
              Txt("Development areas show potential for growth") >>)

\* The monthly metrics with the observation total left at zero.
ParseFailureMetricsZeroTotal(rows, goal_progress, strength_counts, development_counts, weekly_trends) ==
    PyDict(<< Item(<<"totalObservations">>, PyInt(0)),
              Item(<<"activeGoals">>, PyInt(StatusCount(goal_progress, "active"))),
              Item(<<"completedGoals">>, PyInt(StatusCount(goal_progress, "achieved"))),
              Item(<<"goalCompletionRate">>, PyInt(0)),
              Item(<<"topStrengths">>, FirstItems(strength_counts, 5)),
              Item(<<"developmentFocus">>, FirstItems(development_counts, 5)),
              Item(<<"weeklyTrends">>, weekly_trends),
              Item(<<"averageSessionsPerWeek">>, PyInt(0)) >>)

\* Lines 691-710
ParseFailureMonthlyMetrics(rows, goal_progress, strength_counts, development_counts, weekly_trends) ==
    PyDict(<< Item(<<"totalObservations">>, PyInt(Len(rows))),
              Item(<<"activeGoals">>, PyInt(StatusCount(goal_progress, "active"))),
              Item(<<"completedGoals">>, PyInt(StatusCount(goal_progress, "achieved"))),
              Item(<<"goalCompletionRate">>, PyInt(0)),
              Item(<<"topStrengths">>, FirstItems(strength_counts, 5)),
              Item(<<"developmentFocus">>, FirstItems(development_counts, 5)),
              Item(<<"weeklyTrends">>, weekly_trends),
              Item(<<"averageSessionsPerWeek">>,
                   IF rows # <<>> THEN PyFloat(Len(rows) * 10, 43) ELSE PyInt(0)) >>)

\* Lines 672-726: the fallback built when the completion is not JSON
ParseFailureFallback(child_name, year, month, rows, goal_progress, comm_skills, growth_metrics, all_strengths, all_developments, weekly_trends, suggestions) ==
    PyDict(<<
        Item(<<"studentName">>, PyStr(child_name)),
        Item(<<"studentId">>, PyStr(ReportId(year, month))),
        Item(<<"className">>, Txt("Monthly Learning Progress Assessment")),
        Item(<<"date">>, PyStr(PeriodText(year, month))),
        Item(<<"observations">>, PyStr(ObservationsText(child_name, Len(rows), year, month))),
        Item(<<"strengths">>,
             IF all_strengths # <<>> THEN PyList(Take(KeyList(all_strengths), 8))
             ELSE PyList(<<Txt("Learning engagement"), Txt("Curiosity")>>)),
        Item(<<"areasOfDevelopment">>,
             IF all_developments # <<>> THEN PyList(Take(KeyList(all_developments), 6))
             ELSE PyList(<<Txt("Continued practice")>>)),
        Item(<<"recommendations">>, FallbackRecommendations(child_name)),
        Item(<<"communicationSkills">>, comm_skills),
        Item(<<"growthMetrics">>, growth_metrics),
        Item(<<"monthlyMetrics">>,
             ParseFailureMonthlyMetrics(rows, goal_progress, CountAll(all_strengths),
                                        CountAll(all_developments), weekly_trends)),
        Item(<<"learningAnalytics">>, FallbackLearningAnalytics),
        Item(<<"suggestedGraphs">>, PyList(suggestions)),
        Item(<<"progressInsights">>, FallbackInsights(child_name)) >>)

\* The monthly metrics without the weekly trends.
ExceptionMetricsNoTrends(rows) ==
    PyDict(<< Item(<<"totalObservations">>, PyInt(Len(rows))),
              Item(<<"activeGoals">>, PyInt(0)),
              Item(<<"completedGoals">>, PyInt(0)),
              Item(<<"goalCompletionRate">>, PyInt(0)),
              Item(<<"topStrengths">>, PyDict(<<>>)),
              Item(<<"developmentFocus">>, PyDict(<<>>)),
              Item(<<"averageSessionsPerWeek">>, PyInt(0)) >>)

\* Lines 760-769
ExceptionMonthlyMetrics(rows) ==
    PyDict(<< Item(<<"totalObservations">>, PyInt(Len(rows))),
              Item(<<"activeGoals">>, PyInt(0)),
              Item(<<"completedGoals">>, PyInt(0)),
              Item(<<"goalCompletionRate">>, PyInt(0)),
              Item(<<"topStrengths">>, PyDict(<<>>)),
              Item(<<"developmentFocus">>, PyDict(<<>>)),
              Item(<<"weeklyTrends">>, PyDict(<<>>)),
              Item(<<"averageSessionsPerWeek">>, PyInt(0)) >>)

\* Lines 732-785: the fallback built when anything in the function raised
ExceptionFallback(child_name, year, month, rows) ==
    PyDict(<<
        Item(<<"studentName">>, PyStr(child_name)),
        Item(<<"studentId">>, PyStr(ReportId(year, month))),
        Item(<<"className">>, Txt("Monthly Learning Progress Assessment")),
        Item(<<"date">>, PyStr(PeriodText(year, month))),
        Item(<<"observations">>, PyStr(ObservationsText(child_name, Len(rows), year, month))),
        Item(<<"strengths">>, PyList(<<Txt("Learning engagement"), Txt("Curiosity")>>)),
        Item(<<"areasOfDevelopment">>, PyList(<<Txt("Continued practice")>>)),
        Item(<<"recommendations">>, FallbackRecommendations(child_name)),
        Item(<<"communicationSkills">>,
             RatingDict(CommSkillNames, [i \in DOMAIN CommSkillNames |-> "no data"])),
        Item(<<"growthMetrics">>,
             RatingDict(GrowthAreaNames, [i \in DOMAIN GrowthAreaNames |-> "no data"])),
        Item(<<"monthlyMetrics">>, ExceptionMonthlyMetrics(rows)),
        Item(<<"learningAnalytics">>, FallbackLearningAnalytics),
        Item(<<"suggestedGraphs">>, PyList(<<>>)),
        Item(<<"progressInsights">>, FallbackInsights(child_name)) >>)

\* What a return statement hands back: the line it is on and the text.
Returned(path, text) == [path |-> path, text |-> text]

\* Whether something raises between line 412 and the reply of the service:
\* a counting loop meets an unhashable element, or a goal entry cannot give
\* its text and score to the progress bars.
RaisesBeforeReply(goal_progress, all_strengths, all_developments) ==
    \/ ~AllHashable(all_strengths)
    \/ ~AllHashable(all_developments)
    \/ \E i \in DOMAIN Take(goal_progress, 5) : ~GoalEntryOk(goal_progress[i])

\* Lines 458-580 and 650-786 with the lists of lines 416-456 and the weekly
\* trends in hand: the exception fallback when anything raised, the cleaned
\* completion when it is JSON, the parse-failure fallback otherwise.
SummaryWithLists(rows, goal_progress, child_name, year, month, comm_skills, growth_metrics, reply, all_strengths, all_developments, weekly_trends) ==
    IF RaisesBeforeReply(goal_progress, all_strengths, all_developments)
       \/ reply.kind = "raises"
    THEN Returned("exception fallback",
                  JsonDumps(ExceptionFallback(child_name, year, month, rows)))
    ELSE IF ValidJson(Cleaned(reply.text))
    THEN Returned("completion", Cleaned(reply.text))
    ELSE Returned("parse fallback",
                  JsonDumps(ParseFailureFallback(
                      child_name, year, month, rows, goal_progress, comm_skills,
                      growth_metrics, all_strengths, all_developments, weekly_trends,
                      graph_suggestions(Len(rows), StatusCount(goal_progress, "active"),
                                        StatusCount(goal_progress, "achieved"),
                                        goal_progress, CountAll(all_strengths),
                                        CountAll(all_developments), weekly_trends,
                                        calculate_learning_metrics(rows)))))

\* generate_monthly_summary_json_format(observations, goal_progress, child_name,
\* year, month), with the values its calls to get_communication_skills and
\* get_growth_metrics returned and the reply of the generation service (a text,
\* or an exception).  all_recommendations is filled in but never read, and the
\* prompt only goes to the service; neither is modelled.
generate_monthly_summary_json_format(rows, goal_progress, child_name, year, month, comm_skills, growth_metrics, reply) ==
    SummaryWithLists(rows, goal_progress, child_name, year, month, comm_skills,
                     growth_metrics, reply,
                     AllColumnItems(rows, "strengths", 1),
                     AllColumnItems(rows, "areas_of_development", 1),
                     calculate_weekly_trends(rows))

\* ---------------------------------------------------------------- SpecWindow
\* The dates the window claims are about: around the turn of each year, the
\* first and last day of December and January and the first day of February.
EdgeDates ==
    UNION {{DateStr(y, 1, 1), DateStr(y, 1, 31), DateStr(y, 2, 1),
            DateStr(y, 12, 1), DateStr(y, 12, 31)} : y \in Years}

WindowTables ==
    UNION {[1 .. n -> Children \X EdgeDates] : n \in 0 .. MaxWindowObs}

InitWindow ==
    /\ \E t \in WindowTables :
          observations = [i \in DOMAIN t |-> ObsRow(i, t[i][1], t[i][2])]
    /\ goals = <<>>
    /\ goal_alignments = <<>>
    /\ call = NoCall
    /\ response = NoResponse
    /\ result = PyNone

GetMonthData ==
    /\ call = NoCall
    /\ \E child_id \in Children, year \in Years, month \in Months :
          /\ call' = [op |-> "get_month_data", child_id |-> child_id,
                      year |-> year, month |-> month]
          /\ result' = get_month_data(observations, child_id, year, month)
    /\ UNCHANGED <<observations, goals, goal_alignments, response>>

NextWindow == GetMonthData

SpecWindow == InitWindow /\ [][NextWindow]_vars

\* The calendar position of a day, independent of how dates are written.
DayNumber(y, m, d) == (y * 12 + (m - 1)) * 31 + (d - 1)
FirstOfMonth(y, m) == DayNumber(y, m, 1)
FirstOfNextMonth(y, m) == IF m = 12 THEN DayNumber(y + 1, 1, 1) ELSE DayNumber(y, m + 1, 1)
RowDay(row) ==
    LET p == Strptime(row.date) IN DayNumber(p.year, p.month, p.day)
RowInMonth(row, y, m) ==
    FirstOfMonth(y, m) <= RowDay(row) /\ RowDay(row) < FirstOfNextMonth(y, m)
SeqRange(s) == {s[i] : i \in DOMAIN s}

\* C1: get_month_data returns exactly the child's observations dated in
\* [firstOfMonth, firstOfNextMonth) (December rolling over to January of the
\* next year): the first day of the month is in, the first day of the next
\* month is out, and no returned row is returned for any other (year, month).
C1_HalfOpenWindow ==
    call.op = "get_month_data" =>
        LET InMonth(row) ==
                row.student_id = call.child_id /\ RowInMonth(row, call.year, call.month)
        IN  /\ result = SelectSeq(observations, InMonth)
            /\ \A i \in DOMAIN result : \A y \in Years, m \in Months :
                  <<y, m>> # <<call.year, call.month>> =>
                     result[i] \notin SeqRange(get_month_data(observations, call.child_id, y, m))

\* A December call that returns a row of 1 December while the child also has
\* a row of 1 January of the next year, which is left out.
C1_Witness ==
    /\ call.op = "get_month_data"
    /\ call.month = 12
    /\ \E i \in DOMAIN result : result[i].date = DateStr(call.year, 12, 1)
    /\ \E i \in DOMAIN observations :
          /\ observations[i].student_id = call.child_id
          /\ observations[i].date = DateStr(call.year + 1, 1, 1)
          /\ observations[i] \notin SeqRange(result)

\* ---------------------------------------------------------------- SpecFreq
Str(word) == PyStr(<<word>>)
\* The text process_file stores in a list column: json.dumps(list).
StrengthTexts ==
    { JsonDumps(PyList(<<>>)),
      JsonDumps(PyList(<<Str("curiosity"), Str("focus")>>)),
      JsonDumps(PyList(<<Str("curiosity")>>)),
      JsonDumps(PyList(<<Str("patience")>>)),
      <<"not", " ", "recorded">> }
DevelopmentTexts ==
    { JsonDumps(PyList(<<Str("focus")>>)),
      JsonDumps(PyList(<<Str("patience"), Str("focus")>>)) }

FreqTables ==
    UNION {[1 .. n -> StrengthTexts \X DevelopmentTexts] : n \in 0 .. MaxFreqObs}

InitFreq ==
    /\ \E t \in FreqTables :
          observations =
              [i \in DOMAIN t |->
                  [ObsRow(i, "child-1", DateStr(2024, 3, i))
                      EXCEPT !.strengths = t[i][1], !.areas_of_development = t[i][2]]]
    /\ goals = <<>>
    /\ goal_alignments = <<>>
    /\ call = NoCall
    /\ response = NoResponse
    /\ result = PyNone

GetStrengthAreas ==
    /\ call = NoCall
    /\ call' = [op |-> "get_strength_areas", column |-> "strengths"]
    /\ result' = get_strength_areas(observations)
    /\ UNCHANGED <<observations, goals, goal_alignments, response>>

GetDevelopmentAreas ==
    /\ call = NoCall
    /\ call' = [op |-> "get_development_areas", column |-> "areas_of_development"]
    /\ result' = get_development_areas(observations)
    /\ UNCHANGED <<observations, goals, goal_alignments, response>>

NextFreq == GetStrengthAreas \/ GetDevelopmentAreas

SpecFreq == InitFreq /\ [][NextFreq]_vars

RECURSIVE Flatten(_, _, _)
\* Every string of the column's lists, observation after observation.
Flatten(rows, column, i) ==
    IF i > Len(rows) THEN <<>>
    ELSE LET r == JsonLoads(rows[i][column])
         IN  (IF r.ok /\ r.val.t = "list" THEN [j \in DOMAIN r.val.v |-> r.val.v[j].v] ELSE <<>>)
             \o Flatten(rows, column, i + 1)

Occurrences(flat, k) == Cardinality({j \in DOMAIN flat : flat[j] = k})
FirstSeen(flat, k) == CHOOSE j \in DOMAIN flat : flat[j] = k /\ \A h \in 1 .. (j - 1) : flat[h] # k

\* C7: get_strength_areas and get_development_areas return a table that maps
\* each distinct string to its number of occurrences across the observations'
\* lists, ordered by descending count, equal counts in first-seen order.
C7_FrequencyTable ==
    call.op \in {"get_strength_areas", "get_development_areas"} =>
        LET flat == Flatten(observations, call.column, 1)
            tab == result.v
        IN  /\ result.t = "dict"
            /\ {tab[i].k : i \in DOMAIN tab} = {flat[j] : j \in DOMAIN flat}
            /\ \A i, j \in DOMAIN tab : i # j => tab[i].k # tab[j].k
            /\ \A i \in DOMAIN tab : tab[i].v = PyInt(Occurrences(flat, tab[i].k))
            /\ \A i, j \in DOMAIN tab :
                  i < j =>
                     \/ tab[i].v.v > tab[j].v.v
                     \/ /\ tab[i].v.v = tab[j].v.v
                        /\ FirstSeen(flat, tab[i].k) < FirstSeen(flat, tab[j].k)

\* Scenario A: ["curiosity","focus"], ["curiosity"], ["patience"] gives
\* curiosity: 2, focus: 1, patience: 1, in that order.
C7_Witness ==
    /\ call.op = "get_strength_areas"
    /\ Flatten(observations, "strengths", 1)
         = <<<<"curiosity">>, <<"focus">>, <<"curiosity">>, <<"patience">>>>
    /\ result = PyDict(<<Item(<<"curiosity">>, PyInt(2)),
                         Item(<<"focus">>, PyInt(1)),
                         Item(<<"patience">>, PyInt(1))>>)

\* ---------------------------------------------------------------- SpecWeekly
WeekDays == {1, 7, 8, 14, 15, 21, 22, 28, 29, 31}
\* The dates an observation row can carry: a day of March 2024, no date at
\* all, or a timestamp where a date was expected.
WeekDates ==
    {DateStr(2024, 3, d) : d \in WeekDays}
    \cup {<<>>, DateStr(2024, 3, 5) \o <<"T", "1", "0", ":", "0", "0">>}

WeekTables == UNION {[1 .. n -> WeekDates] : n \in 0 .. MaxWeekObs}

InitWeekly ==
    /\ \E t \in WeekTables :
          observations = [i \in DOMAIN t |-> ObsRow(i, "child-1", t[i])]
    /\ goals = <<>>
    /\ goal_alignments = <<>>
    /\ call = NoCall
    /\ response = NoResponse
    /\ result = PyNone

CalculateWeeklyTrends ==
    /\ call = NoCall
    /\ call' = [op |-> "_calculate_weekly_trends"]
    /\ result' = calculate_weekly_trends(observations)
    /\ UNCHANGED <<observations, goals, goal_alignments, response>>

NextWeekly == CalculateWeeklyTrends

SpecWeekly == InitWeekly /\ [][NextWeekly]_vars

\* The observations with a parseable date in week n (1..5) of their month.
InWeek(rows, n) ==
    {i \in DOMAIN rows :
        StrptimeOk(rows[i].date) /\ (Strptime(rows[i].date).day - 1) \div 7 = n - 1}
RECURSIVE SumValues(_, _)
SumValues(items, i) == IF i > Len(items) THEN 0 ELSE items[i].v.v + SumValues(items, i + 1)

\* C10: _calculate_weekly_trends has the key "Week N" (N in 1..5) exactly when
\* some observation has a parseable date with (day - 1) // 7 = N - 1, mapped to
\* the number of such observations; no key maps to zero, there is no other
\* key, and the values sum to the number of observations with a parseable date.
C10_WeeklyTrendsSparse ==
    call.op = "_calculate_weekly_trends" =>
        /\ result.t = "dict"
        /\ \A n \in 1 .. 5 :
              /\ HasKey(result, WeekKey(n)) <=> InWeek(observations, n) # {}
              /\ HasKey(result, WeekKey(n)) =>
                    DictGet(result, WeekKey(n)) = PyInt(Cardinality(InWeek(observations, n)))
        /\ \A i \in DOMAIN result.v :
              /\ result.v[i].k \in {WeekKey(n) : n \in 1 .. 5}
              /\ result.v[i].v.v > 0
        /\ \A i, j \in DOMAIN result.v : i # j => result.v[i].k # result.v[j].k
        /\ SumValues(result.v, 1)
             = Cardinality({i \in DOMAIN observations : StrptimeOk(observations[i].date)})

\* Two observations in week 5 (days 29 and 31), one without a date, and
\* nothing in weeks 1 to 4: the map is exactly {"Week 5": 2}.
C10_Witness ==
    /\ call.op = "_calculate_weekly_trends"
    /\ Len(observations) = 3
    /\ \E i \in DOMAIN observations : ~StrptimeOk(observations[i].date)
    /\ result = PyDict(<<Item(WeekKey(5), PyInt(2))>>)

\* ---------------------------------------------------------------- SpecGoals
\* Three observations, their ids not in date order: 20 March, 5 March, 1 April.
GoalObservations ==
    << ObsRow(1, "child-1", DateStr(2024, 3, 20)),
       ObsRow(2, "child-1", DateStr(2024, 3, 5)),
       ObsRow(3, "child-1", DateStr(2024, 4, 1)) >>

GoalRows ==
    << [id |-> 1, child_id |-> "child-1", goal_text |-> <<"Reads", " ", "aloud">>,
        status |-> <<"active">>],
       [id |-> 2, child_id |-> "child-1", goal_text |-> <<"Counts", " ", "to", " ", "2", "0">>,
        status |-> <<"achieved">>],
       [id |-> 3, child_id |-> "child-2", goal_text |-> <<"Shares", " ", "toys">>,
        status |-> <<"active">>] >>

\* An alignment points to one of the observations, or (4) to one that is gone.
AlignmentRows ==
    [goal_id : {1, 2, 3}, report_id : 1 .. 4, alignment_score : {0, 6, 8}]
AlignmentTables == UNION {[1 .. n -> AlignmentRows] : n \in 0 .. MaxAlignments}
GoalWindows == {<<2024, 3>>, <<2024, 4>>}

InitGoals ==
    /\ observations = GoalObservations
    /\ goals = GoalRows
    /\ goal_alignments \in AlignmentTables
    /\ call = NoCall
    /\ response = NoResponse
    /\ result = PyNone

GetGoalProgress ==
    /\ call = NoCall
    /\ \E child_id \in Children, w \in GoalWindows :
          /\ call' = [op |-> "get_goal_progress", child_id |-> child_id,
                      year |-> w[1], month |-> w[2]]
          /\ result' = get_goal_progress(observations, goals, goal_alignments,
                                         child_id, w[1], w[2])
    /\ UNCHANGED <<observations, goals, goal_alignments, response>>

NextGoals == GetGoalProgress

SpecGoals == InitGoals /\ [][NextGoals]_vars

\* The observation an alignment is linked to, if the store still has it.
Linked(a) == {i \in DOMAIN observations : observations[i].id = a.report_id}
LinkedDay(a) == RowDay(observations[CHOOSE i \in Linked(a) : TRUE])
\* The positions in goal_alignments of a goal's alignments whose linked
\* observation is dated in the month of the call.
InWindowAlignments(goal) ==
    {i \in DOMAIN goal_alignments :
        /\ goal_alignments[i].goal_id = goal.id
        /\ \E o \in Linked(goal_alignments[i]) :
              RowInMonth(observations[o], call.year, call.month)}
RECURSIVE SumOver(_)
SumOver(idx) ==
    IF idx = {} THEN 0
    ELSE LET i == CHOOSE i \in idx : TRUE
         IN  goal_alignments[i].alignment_score + SumOver(idx \ {i})
\* The child's goals that have in-window evidence, in table order.
GoalsWithEvidence ==
    LET Has(goal) == goal.child_id = call.child_id /\ InWindowAlignments(goal) # {}
    IN  SelectSeq(goals, Has)

\* C8: get_goal_progress emits an entry for a goal exactly when the goal has
\* an alignment whose linked observation is dated inside the window; the entry
\* counts exactly those alignments and averages their scores (so the average
\* lies in 0..10); a goal without in-window evidence has no entry.
C8_GoalProgressInWindow ==
    call.op = "get_goal_progress" =>
        /\ result.t = "list"
        /\ Len(result.v) = Len(GoalsWithEvidence)
        /\ \A i \in DOMAIN result.v :
              LET entry == result.v[i]
                  idx == InWindowAlignments(GoalsWithEvidence[i])
                  avg == DictGet(entry, <<"avg_score">>).v
              IN  /\ DictGet(entry, <<"goal_text">>) = PyStr(GoalsWithEvidence[i].goal_text)
                  /\ DictGet(entry, <<"num_observations">>) = PyInt(Cardinality(idx))
                  /\ avg = <<SumOver(idx), Cardinality(idx)>>
                  /\ 0 <= avg[1] /\ avg[1] <= 10 * avg[2] /\ avg[2] > 0
                  /\ Len(DictGet(entry, <<"progress_trend">>).v) = Cardinality(idx)

\* Scenario B: one goal has in-window scores 6 and 8, which average 7 (14 / 2);
\* the child's other goal has no in-window alignment and no entry.
C8_Witness ==
    /\ call.op = "get_goal_progress"
    /\ call.child_id = "child-1"
    /\ Len(result.v) = 1
    /\ DictGet(result.v[1], <<"goal_text">>) = PyStr(GoalRows[1].goal_text)
    /\ DictGet(result.v[1], <<"avg_score">>) = PyFloat(14, 2)
    /\ DictGet(result.v[1], <<"num_observations">>) = PyInt(2)

Orderings(n) == {f \in [1 .. n -> 1 .. n] : \A i, j \in 1 .. n : i # j => f[i] # f[j]}
\* The positions of a goal's in-window alignments, in the order the store
\* returns the rows.
RECURSIVE InOrder(_, _)
InOrder(idx, i) ==
    IF i > Len(goal_alignments) THEN <<>>
    ELSE (IF i \in idx THEN <<i>> ELSE <<>>) \o InOrder(idx, i + 1)
\* trend is the scores of the alignments idx in some order that is
\* chronological by the date of the observation each is linked to.
IsChronological(trend, idx) ==
    LET rows == InOrder(idx, 1)
    IN  \E f \in Orderings(Len(rows)) :
           /\ \A p, q \in DOMAIN rows :
                 p < q => LinkedDay(goal_alignments[rows[f[p]]])
                            <= LinkedDay(goal_alignments[rows[f[q]]])
           /\ trend = [p \in DOMAIN rows |-> PyInt(goal_alignments[rows[f[p]]].alignment_score)]

\* C9: for every goal emitted, progress_trend lists the in-window scores in
\* chronological order of the linked observations' dates, whatever the order
\* the store returns the alignment rows in.
C9_TrendChronological ==
    call.op = "get_goal_progress" =>
        \A i \in DOMAIN result.v :
            IsChronological(DictGet(result.v[i], <<"progress_trend">>).v,
                            InWindowAlignments(GoalsWithEvidence[i]))

\* ---------------------------------------------------------------- SpecSummary
MaxSummaryObs == 2

\* Two daily reports: the first rates confidence Strong, the second Weak, so a
\* month that has both has no single most frequent confidence rating.
ReportStrong ==
    <<"Confidence level:", " ", "Strong", "\n",
      "Participation", " & Engagement", ":", " ", "Active", "\n",
      "Intellectual", " ", "|", " ", "Excellent", " ", "|", " ", "built", " ", "a", " ",
      "tower", " ", "|">>
ReportWeak == <<"Confidence level:", " ", "Weak">>

FullData(report) == JsonDumps(PyDict(<<Item(<<"formatted_report">>, PyStr(report))>>))

\* The observations a month is drawn from: two with strengths and a report, one
\* whose strengths column holds a list inside the list.
SummaryRows ==
    { [ObsRow(1, "child-1", DateStr(2024, 3, 5))
          EXCEPT !.strengths = JsonDumps(PyList(<<Str("curiosity"), Str("focus")>>)),
                 !.areas_of_development = JsonDumps(PyList(<<Str("patience")>>)),
                 !.theme_of_day = <<"plants">>,
                 !.full_data = FullData(ReportStrong)],
      [ObsRow(2, "child-1", DateStr(2024, 3, 31))
          EXCEPT !.strengths = JsonDumps(PyList(<<Str("focus")>>)),
                 !.full_data = FullData(ReportWeak)],
      [ObsRow(3, "child-1", DateStr(2024, 3, 12))
          EXCEPT !.strengths = JsonDumps(PyList(<<PyList(<<Str("focus")>>)>>))] }

\* An observation with six strengths, the last of them one that the first two
\* observations above have too.
SixStrengthsRow ==
    [ObsRow(4, "child-1", DateStr(2024, 3, 19))
        EXCEPT !.strengths =
                   JsonDumps(PyList(<<Str("empathy"), Str("memory"), Str("balance"),
                                      Str("rhythm"), Str("sharing"), Str("focus")>>))]

\* The months: any of the three observations in any order, and the same with
\* the observation of six strengths returned first.
SummaryMonths ==
    UNION {[1 .. n -> SummaryRows] : n \in 0 .. MaxSummaryObs}
    \cup UNION {{<<SixStrengthsRow>> \o month : month \in [1 .. n -> SummaryRows]} :
                   n \in 0 .. MaxSummaryObs - 1}

\* The goal progress, child name and period of a request: no goal at all; an
\* active and an achieved goal, for a child whose name has a quote in it; a
\* goal that was stored without its text.
SummaryRequests ==
    { [goal_progress |-> <<>>, child_name |-> <<"Asha">>, year |-> 2024, month |-> 3],
      [goal_progress |->
          << GoalEntry(GoalRows[1], <<[alignment_score |-> 6], [alignment_score |-> 8]>>),
             GoalEntry(GoalRows[2], <<[alignment_score |-> 8]>>) >>,
       child_name |-> <<"O", "\"", "Neil">>, year |-> 2023, month |-> 12],
      [goal_progress |->
          << DictSet(GoalEntry(GoalRows[1], <<[alignment_score |-> 6]>>),
                     <<"goal_text">>, PyNone) >>,
       child_name |-> <<"Asha">>, year |-> 2024, month |-> 3] }

\* A completion that follows the requested structure.
SchemaCompletion ==
    JsonDumps(PyDict([i \in DOMAIN PromptKeys |->
        Item(<<PromptKeys[i]>>,
             CASE PromptKeys[i] \in {"strengths", "areasOfDevelopment", "recommendations",
                                     "suggestedGraphs", "progressInsights"} -> PyList(<<>>)
               [] PromptKeys[i] = "monthlyMetrics" ->
                     PyDict([j \in DOMAIN PromptMonthlyMetricsKeys |->
                                Item(<<PromptMonthlyMetricsKeys[j]>>, PyInt(7))])
               [] PromptKeys[i] \in {"communicationSkills", "growthMetrics",
                                     "learningAnalytics"} -> PyDict(<<>>)
               [] OTHER -> Txt("Asha"))]))

\* Completions that are JSON: the requested structure, an object with one key,
\* an array, a number.
JsonBodies ==
    { SchemaCompletion,
      JsonDumps(PyDict(<<Item(<<"studentName">>, Txt("Asha"))>>)),
      JsonDumps(PyList(<<PyInt(1), PyInt(2)>>)),
      <<"4", "2">> }

\* Completions that are plain prose
ProseBodies == { <<"Here", " ", "is", " ", "the", " ", "report", ".">> }

\* Completions that are neither: an object cut short, nothing at all, an
\* object with prose around it.
BrokenBodies ==
    { <<"{", "\"", "studentName", "\"", ":">>,
      <<>>,
      <<"Sure", ":", " ", "{", "\"", "date", "\"", ":", " ", "1", "}", " ", "Done">> }

FenceStyles == {"bare", "json", "plain", "padded", "unclosed"}

\* A completion body as the service may wrap it
Wrap(style, body) ==
    CASE style = "bare" -> body
      [] style = "json" -> JsonFence \o <<"\n">> \o body \o <<"\n">> \o Fence
      [] style = "plain" -> Fence \o <<"\n">> \o body \o <<"\n">> \o Fence
      [] style = "padded" -> <<" ", "\n">> \o JsonFence \o body \o <<" ">> \o Fence \o <<"\n", " ">>
      [] style = "unclosed" -> JsonFence \o <<"\n">> \o body

Replies ==
    {[kind |-> "raises", text |-> <<>>]}
    \cup {[kind |-> "text", text |-> Wrap(style, body)] :
             style \in FenceStyles, body \in JsonBodies \cup ProseBodies \cup BrokenBodies}

InitSummary ==
    /\ observations \in SummaryMonths
    /\ goals = <<>>
    /\ goal_alignments = <<>>
    /\ call = NoCall
    /\ response = NoResponse
    /\ result = PyNone

GenerateMonthlySummary ==
    /\ call = NoCall
    /\ \E request \in SummaryRequests, reply \in Replies,
          comm_skills \in get_communication_skills(observations),
          growth_metrics \in get_growth_metrics(observations) :
          /\ call' = [op |-> "generate_monthly_summary_json_format",
                      goal_progress |-> request.goal_progress,
                      child_name |-> request.child_name,
                      year |-> request.year, month |-> request.month,
                      comm_skills |-> comm_skills, growth_metrics |-> growth_metrics]
          /\ response' = reply
          /\ result' = generate_monthly_summary_json_format(
                          observations, request.goal_progress, request.child_name,
                          request.year, request.month, comm_skills, growth_metrics, reply)
    /\ UNCHANGED <<observations, goals, goal_alignments>>

NextSummary == GenerateMonthlySummary

SpecSummary == InitSummary /\ [][NextSummary]_vars

\* Whether a summary has been generated in this state
SummaryReturned == call.op = "generate_monthly_summary_json_format"

\* json.loads(result): what the caller reads from the returned text
ResultValue == JsonLoads(result.text).val

\* The completions that are a body wrapped in one of the given styles
Wrapped(styles, bodies) ==
    {[kind |-> "text", text |-> Wrap(style, body)] : style \in styles, body \in bodies}

\* C2: generate_monthly_summary_json_format never raises to its caller:
\* whatever the observations, the goal progress and the behaviour of the
\* generation service (it raises, or returns empty text, prose, malformed or
\* valid JSON), the function returns from one of its three return statements
\* and the text it returns parses as JSON.
C2_ReturnsJson ==
    SummaryReturned =>
        /\ result.path \in {"completion", "parse fallback", "exception fallback"}
        /\ JsonLoads(result.text).ok

\* The service raised during a month of two observations, and the text that
\* came back is JSON.
C2_Witness ==
    /\ SummaryReturned
    /\ response.kind = "raises"
    /\ Len(observations) = 2
    /\ result.path = "exception fallback"
    /\ JsonLoads(result.text).ok

\* The parsed text r is a JSON object that has every requested top-level key.
HasSchemaShape(r) ==
    /\ r.ok
    /\ r.val.t = "dict"
    /\ \A i \in DOMAIN PromptKeys : HasKey(r.val, <<PromptKeys[i]>>)

\* C3: whenever generate_monthly_summary_json_format returns, the result is a
\* JSON object that has every top-level key of the schema, also when the
\* completion is valid JSON of another shape (an array, a scalar, an object
\* that lacks keys).
C3_SchemaShaped == SummaryReturned => HasSchemaShape(JsonLoads(result.text))

\* The value v is an object whose key sets are the requested ones.
KeysAsRequested(v, requested) ==
    /\ v.t = "dict"
    /\ DictKeySet(v) = requested.top
    /\ DictGet(v, <<"monthlyMetrics">>).t = "dict"
    /\ DictKeySet(DictGet(v, <<"monthlyMetrics">>)) = requested.monthlyMetrics
    /\ DictGet(v, <<"communicationSkills">>).t = "dict"
    /\ DictKeySet(DictGet(v, <<"communicationSkills">>)) = requested.communicationSkills
    /\ DictGet(v, <<"growthMetrics">>).t = "dict"
    /\ DictKeySet(DictGet(v, <<"growthMetrics">>)) = requested.growthMetrics

\* C4: both fallbacks (the one built after a completion that does not parse
\* and the one built after an exception) have exactly the top-level keys, the
\* monthlyMetrics keys, the communicationSkills keys and the growthMetrics keys
\* of the structure the prompt asks for.
C4_FallbackSameSchema ==
    (SummaryReturned /\ result.path \in {"parse fallback", "exception fallback"}) =>
        KeysAsRequested(ResultValue, PromptStructure(call.comm_skills, call.growth_metrics))

\* The service answered, but a strengths column that holds a list inside the
\* list made the counting raise: the exception fallback has the requested keys.
C4_Witness ==
    /\ SummaryReturned
    /\ response.kind = "text"
    /\ result.path = "exception fallback"
    /\ \E i \in DOMAIN observations : observations[i].id = 3
    /\ KeysAsRequested(ResultValue, PromptStructure(call.comm_skills, call.growth_metrics))

\* The value v is an object whose monthlyMetrics.totalObservations is n.
TotalObservationsIs(v, n) ==
    /\ v.t = "dict"
    /\ HasKey(v, <<"monthlyMetrics">>)
    /\ HasKey(DictGet(v, <<"monthlyMetrics">>), <<"totalObservations">>)
    /\ DictGet(DictGet(v, <<"monthlyMetrics">>), <<"totalObservations">>) = PyInt(n)

\* C5: when the completion is plain prose, the result is a fallback whose
\* monthlyMetrics.totalObservations is there and is the number of observations
\* passed in, zero included.
C5_ProseKeepsTotal ==
    (SummaryReturned /\ response \in Wrapped(FenceStyles, ProseBodies)) =>
        /\ result.path \in {"parse fallback", "exception fallback"}
        /\ TotalObservationsIs(ResultValue, Len(observations))

\* Bare prose came back for a month of two observations: the parse fallback
\* says totalObservations is 2.
C5_Witness ==
    /\ SummaryReturned
    /\ response \in Wrapped({"bare"}, ProseBodies)
    /\ Len(observations) = 2
    /\ result.path = "parse fallback"
    /\ TotalObservationsIs(ResultValue, 2)

\* C6: a completion that is a valid JSON text J inside an opening fence (with
\* or without the word json) and a closing fence, white space around either,
\* gives the result the completion J alone gives.
C6_FencedSameAsBare ==
    SummaryReturned =>
        \A body \in JsonBodies :
            response \in Wrapped({"json", "plain", "padded"}, {body}) =>
                result = generate_monthly_summary_json_format(
                            observations, call.goal_progress, call.child_name, call.year,
                            call.month, call.comm_skills, call.growth_metrics,
                            [kind |-> "text", text |-> body])

\* The requested structure came back inside a json fence with white space
\* around it, and the function returned the structure itself.
C6_Witness ==
    /\ SummaryReturned
    /\ response \in Wrapped({"padded"}, {SchemaCompletion})
    /\ result = Returned("completion", SchemaCompletion)

\* ---------------------------------------------------------------- SpecCharts
MaxChartObs == 2

\* The date column holds whatever text the structuring step returned for the
\* day (observer.py line 262).  A timestamp of the fifth of March sorts inside
\* the window of March, so get_month_data returns the row, and strptime with
\* "%Y-%m-%d" rejects it ("unconverted data remains").
TimestampDate == DateStr(2024, 3, 5) \o <<"T", "0", "9", ":", "3", "0">>

\* The observations a month is drawn from: one dated by day, one dated by a
\* timestamp.
ChartRows ==
    { [ObsRow(1, "child-1", DateStr(2024, 3, 5))
          EXCEPT !.strengths = JsonDumps(PyList(<<Str("curiosity"), Str("focus")>>)),
                 !.areas_of_development = JsonDumps(PyList(<<Str("patience")>>)),
                 !.theme_of_day = <<"plants">>],
      [ObsRow(4, "child-1", TimestampDate)
          EXCEPT !.strengths = JsonDumps(PyList(<<Str("focus")>>))] }

ChartMonths == UNION {[1 .. n -> ChartRows] : n \in 0 .. MaxChartObs}

InitCharts ==
    /\ observations \in ChartMonths
    /\ goals = <<>>
    /\ goal_alignments = <<>>
    /\ call = NoCall
    /\ response = NoResponse
    /\ result = PyNone

SpecCharts == InitCharts /\ [][NextSummary]_vars

\* len(d["data"]) > 0 for a chart descriptor d
HasData(d) ==
    /\ IsDict(d)
    /\ HasKey(d, <<"data">>)
    /\ DictGet(d, <<"data">>).t \in {"dict", "list"}
    /\ DictGet(d, <<"data">>).v # <<>>

\* Every descriptor in the suggestedGraphs of the summary v has data.
ChartsHaveData(v) ==
    /\ IsDict(v)
    /\ HasKey(v, <<"suggestedGraphs">>)
    /\ \A i \in DOMAIN DictGet(v, <<"suggestedGraphs">>).v :
           HasData(DictGet(v, <<"suggestedGraphs">>).v[i])

\* C11: every chart descriptor the function places in the suggestedGraphs of
\* the summary it builds has a non-empty data field; in particular no weekly
\* trend line chart is there when no observation counts for any week.
C11_ChartsHaveData ==
    (SummaryReturned /\ result.path = "parse fallback") => ChartsHaveData(ResultValue)

\* ---------------------------------------------------------------- SpecRatings
MaxRatingObs == 3

\* A daily report that rates confidence Moderate, clarity Clear and the
\* intellectual area Good.
ReportModerate ==
    <<"Confidence level:", " ", "Moderate", "\n",
      "Clarity of thought:", " ", "Clear", "\n",
      "Intellectual", " ", "|", " ", "Good", " ", "|", " ", "asked", " ", "why", " ", "|">>

\* The observations a month is drawn from: three with a report, one whose
\* full_data is not JSON.
RatingRows ==
    { [ObsRow(1, "child-1", DateStr(2024, 3, 5)) EXCEPT !.full_data = FullData(ReportStrong)],
      [ObsRow(2, "child-1", DateStr(2024, 3, 6)) EXCEPT !.full_data = FullData(ReportWeak)],
      [ObsRow(3, "child-1", DateStr(2024, 3, 7)) EXCEPT !.full_data = FullData(ReportModerate)],
      [ObsRow(4, "child-1", DateStr(2024, 3, 8)) EXCEPT !.full_data = <<"not", " ", "json">>] }

RatingMonths == UNION {[1 .. n -> RatingRows] : n \in 0 .. MaxRatingObs}

InitRatings ==
    /\ observations \in RatingMonths
    /\ goals = <<>>
    /\ goal_alignments = <<>>
    /\ call = NoCall
    /\ response = NoResponse
    /\ result = PyNone

GetCommunicationSkills ==
    /\ call = NoCall
    /\ call' = [op |-> "get_communication_skills"]
    /\ result' \in get_communication_skills(observations)
    /\ UNCHANGED <<observations, goals, goal_alignments, response>>

GetGrowthMetrics ==
    /\ call = NoCall
    /\ call' = [op |-> "get_growth_metrics"]
    /\ result' \in get_growth_metrics(observations)
    /\ UNCHANGED <<observations, goals, goal_alignments, response>>

NextRatings == GetCommunicationSkills \/ GetGrowthMetrics

SpecRatings == InitRatings /\ [][NextRatings]_vars

\* The most frequent of the values, the one seen first among equally frequent
\* ones; "no data" when there is none.
FirstSeenMostCommon(values) ==
    IF values = <<>> THEN "no data"
    ELSE values[SetMin({j \in DOMAIN values :
                           \A h \in DOMAIN values :
                               CountOf(values, values[h]) <= CountOf(values, values[j])})]

\* C12: get_communication_skills and get_growth_metrics return a summary with
\* every one of the four skill keys resp. the seven growth-area keys; each key
\* maps to the most frequent rating extracted for it over the observations,
\* the one seen first among equally frequent ratings, or to "no data" exactly
\* when no observation yielded a rating for it.
C12_MostFrequentFirstSeen ==
    /\ call.op = "get_communication_skills" =>
          result = RatingDict(CommSkillNames,
                      [i \in DOMAIN CommSkillNames |->
                          FirstSeenMostCommon(SkillRatings(observations, CommSkillNames[i]))])
    /\ call.op = "get_growth_metrics" =>
          result = RatingDict(GrowthAreaNames,
                      [i \in DOMAIN GrowthAreaNames |->
                          FirstSeenMostCommon(AreaRatings(observations, GrowthAreaNames[i]))])

\* C13: aggregation is deterministic: a second run over the same observations
\* returns what the first returned, so the summary a call returned is the only
\* one the function can return for these observations; nothing depends on the
\* order in which a set yields its members.
C13_Deterministic ==
    /\ call.op = "get_communication_skills" =>
          get_communication_skills(observations) = {result}
    /\ call.op = "get_growth_metrics" =>
          get_growth_metrics(observations) = {result}

\* ---------------------------------------------------------------- generate_excel_report
\* The text from position q on is " ?/ ?10": an optional space, a slash, an
\* optional space, the digits 1 and 0.
SlashTenAt(text, q) ==
    \E a \in {0, 1}, b \in {0, 1} :
        /\ q + a + b + 2 <= Len(text)
        /\ a = 1 => text[q] = " "
        /\ text[q + a] = "/"
        /\ b = 1 => text[q + a + 1] = " "
        /\ text[q + a + b + 1] = "1"
        /\ text[q + a + b + 2] = "0"

\* The number of digits (\d{1,2}) takes when the pattern matches at the label
\* at position p, 0 when it does not: one space after the label, two digits or
\* else one, then " ?/ ?10".
CuriosityDigits(text, p) ==
    IF p + 2 > Len(text) \/ text[p] # "Curiosity Response Index:" \/ text[p + 1] # " "
    THEN 0
    ELSE IF p + 3 <= Len(text) /\ IsDigit(text[p + 2]) /\ IsDigit(text[p + 3])
            /\ SlashTenAt(text, p + 4)
    THEN 2
    ELSE IF IsDigit(text[p + 2]) /\ SlashTenAt(text, p + 3) THEN 1 ELSE 0

\* The rightmost label the pattern matches at, where re.search takes the
\* leftmost.
SearchCuriosityLast(text) ==
    LET starts == {p \in DOMAIN text : CuriosityDigits(text, p) > 0}
    IN  IF starts = {} THEN NoMatch
        ELSE Match(DigitsValue(text, SetMax(starts) + 2,
                               SetMax(starts) + 1 + CuriosityDigits(text, SetMax(starts))))

\* re.search(r"Curiosity Response Index: (\d{1,2}) ?/ ?10", report) and
\* int(match.group(1)): the leftmost label the pattern matches at.  The
\* pictograph that opens the label is part of the label's chunk.
SearchCuriosity(text) ==
    LET starts == {p \in DOMAIN text : CuriosityDigits(text, p) > 0}
    IN  IF starts = {} THEN NoMatch
        ELSE Match(DigitsValue(text, SetMin(starts) + 2,
                               SetMin(starts) + 1 + CuriosityDigits(text, SetMin(starts))))

\* The text after position q is "\s*/\s*7": white space, a slash, white space,
\* the digit 7.
SlashSevenAfter(text, q) ==
    \E e \in (q + 1) .. Len(text), f \in (q + 2) .. Len(text) :
        /\ e < f
        /\ text[e] = "/" /\ text[f] = "7"
        /\ \A r \in (q + 1) .. (e - 1) : text[r] \in Whitespace
        /\ \A r \in (e + 1) .. (f - 1) : text[r] \in Whitespace

\* re.search(r"Overall Growth Score.*?(\d)\s*/\s*7", report) and
\* int(match.group(1)): after the leftmost label that matches, the first digit
\* on the label's line that has "/7" after it.
SearchGrowth(text) ==
    LET DigitsAfter(p) ==
            {q \in (p + 1) .. Len(text) :
                /\ IsDigit(text[q])
                /\ NoNewline(text, p + 1, q - 1)
                /\ SlashSevenAfter(text, q)}
        starts == {p \in DOMAIN text :
                      text[p] = "Overall Growth Score" /\ DigitsAfter(p) # {}}
    IN  IF starts = {} THEN NoMatch
        ELSE Match(DigitValue(text[SetMin(DigitsAfter(SetMin(starts)))]))

\* Lines 847-851 on what json.loads gave: the report is "" when a step raises
\* inside the try (text that is not JSON, a value that has no get()).
ExcelReportOf(r) ==
    IF ~r.ok \/ r.val.t # "dict" THEN <<>>
    ELSE IF ~HasKey(r.val, <<"formatted_report">>) THEN <<>>
    ELSE DictGet(r.val, <<"formatted_report">>).v

ExcelReport(row) == ExcelReportOf(JsonLoads(row.full_data))

RECURSIVE SkillsFound(_, _)
\* Lines 864-887: the dict of the skills found in the report, as written there
SkillsFound(text, i) ==
    IF i > Len(CommSkillNames) THEN <<>>
    ELSE (IF SkillGroup(text, CommSkillNames[i]).found
          THEN <<Item(<<CommSkillNames[i]>>,
                      PyStr(<<SkillGroup(text, CommSkillNames[i]).value>>))>>
          ELSE <<>>)
         \o SkillsFound(text, i + 1)

RECURSIVE CuriosityByDate(_, _, _)
\* curiosity_by_date after the loop of lines 845-889
CuriosityByDate(rows, i, d) ==
    IF i > Len(rows) THEN d
    ELSE IF SearchCuriosity(ExcelReport(rows[i])).found
    THEN CuriosityByDate(rows, i + 1,
            DictSet(d, rows[i].date, PyInt(SearchCuriosity(ExcelReport(rows[i])).value)))
    ELSE CuriosityByDate(rows, i + 1, d)

RECURSIVE GrowthByDate(_, _, _)
\* growth_by_date after the loop
GrowthByDate(rows, i, d) ==
    IF i > Len(rows) THEN d
    ELSE IF SearchGrowth(ExcelReport(rows[i])).found
    THEN GrowthByDate(rows, i + 1,
            DictSet(d, rows[i].date, PyInt(SearchGrowth(ExcelReport(rows[i])).value)))
    ELSE GrowthByDate(rows, i + 1, d)

RECURSIVE CommSkillsByDate(_, _, _)
\* comm_skills_by_date after the loop
CommSkillsByDate(rows, i, d) ==
    IF i > Len(rows) THEN d
    ELSE IF SkillsFound(ExcelReport(rows[i]), 1) # <<>>
    THEN CommSkillsByDate(rows, i + 1,
            DictSet(d, rows[i].date, PyDict(SkillsFound(ExcelReport(rows[i]), 1))))
    ELSE CommSkillsByDate(rows, i + 1, d)

RECURSIVE SortedTexts(_)
\* sorted(d.keys()) on str keys
SortedTexts(S) ==
    IF S = {} THEN <<>>
    ELSE LET least == CHOOSE x \in S : \A y \in S : StrLessEq(x, y)
         IN  <<least>> \o SortedTexts(S \ {least})

\* Lines 892-897: the dates in ascending order, each with its value
SeriesByDate(d) ==
    [i \in DOMAIN SortedTexts(DictKeySet(d)) |->
        [date |-> SortedTexts(DictKeySet(d))[i],
         value |-> DictGet(d, SortedTexts(DictKeySet(d))[i])]]

\* One sheet of the workbook: its name, its header, its rows of cells and the
\* title of the chart inserted in it (<<>> when there is none).  Pictographs
\* in names and titles are left out.
Sheet(name, columns, rows, chart) ==
    [name |-> name, columns |-> columns, rows |-> rows, chart |-> chart]

RECURSIVE SumAvgScores(_, _)
\* sum(g["avg_score"] for g in goal_progress), as a fraction <<num, den>>
SumAvgScores(goal_progress, i) ==
    IF i > Len(goal_progress) THEN <<0, 1>>
    ELSE LET a == DictGet(goal_progress[i], <<"avg_score">>).v
             rest == SumAvgScores(goal_progress, i + 1)
         IN  <<a[1] * rest[2] + rest[1] * a[2], a[2] * rest[2]>>

\* Lines 901-913: the Summary sheet
SummarySheet(rows, goal_progress) ==
    Sheet(<<"Summary">>, <<"Metric", "Value">>,
          << <<Txt("Total Observations"), PyInt(Len(rows))>>,
             <<Txt("Goals Tracked"), PyInt(Len(goal_progress))>>,
             <<Txt("Average Goal Score"),
               IF goal_progress # <<>>
               THEN PyFloat(SumAvgScores(goal_progress, 1)[1],
                            SumAvgScores(goal_progress, 1)[2] * Len(goal_progress))
               ELSE PyInt(0)>> >>,
          <<>>)

\* A trend sheet that is written with its chart whether or not the series
\* has a date.
TrendSheetAlways(series, name, column, title) ==
    <<Sheet(name, <<"Date", column>>,
            [i \in DOMAIN series |-> <<PyStr(series[i].date), series[i].value>>],
            title)>>

\* Lines 926-966: a sheet of a series by date with its line chart, written
\* when the series has a date
TrendSheet(series, name, column, title) ==
    IF series = <<>> THEN <<>>
    ELSE <<Sheet(name, <<"Date", column>>,
                 [i \in DOMAIN series |-> <<PyStr(series[i].date), series[i].value>>],
                 title)>>

\* Lines 969-986: the Communication Skills sheet
CommSkillsSheet(series) ==
    IF series = <<>> THEN <<>>
    ELSE <<Sheet(<<"Communication Skills">>,
                 <<"Date", "Confidence", "Clarity", "Participation", "Sequencing">>,
                 [i \in DOMAIN series |->
                     <<PyStr(series[i].date)>>
                     \o [j \in DOMAIN CommSkillNames |->
                            DictGetOr(series[i].value, <<CommSkillNames[j]>>, PyStr(<<>>))]],
                 <<>>)>>

\* Lines 989-1010: a sheet of counts, written when the dict has an item
CountsSheet(counts, name, column) ==
    IF counts.v = <<>> THEN <<>>
    ELSE <<Sheet(name, <<column, "Count">>,
                 [i \in DOMAIN counts.v |-> <<PyStr(counts.v[i].k), counts.v[i].v>>],
                 <<>>)>>

\* Lines 1013-1025: the Goal Progress sheet
GoalProgressSheet(goal_progress) ==
    IF goal_progress = <<>> THEN <<>>
    ELSE <<Sheet(<<"Goal Progress">>, <<"Goal", "Average Score", "Observations">>,
                 [i \in DOMAIN goal_progress |->
                     <<DictGet(goal_progress[i], <<"goal_text">>),
                       DictGet(goal_progress[i], <<"avg_score">>),
                       DictGet(goal_progress[i], <<"num_observations">>)>>],
                 <<>>)>>

\* The workbook generate_excel_report returns: its sheets in the order they
\* are written.
generate_excel_report(rows, goal_progress, strength_counts, development_counts) ==
    <<SummarySheet(rows, goal_progress)>>
    \o TrendSheet(SeriesByDate(CuriosityByDate(rows, 1, PyDict(<<>>))),
                  <<"Curiosity Trend">>, "Curiosity Score",
                  <<"Curiosity Response Index by Day">>)
    \o TrendSheet(SeriesByDate(GrowthByDate(rows, 1, PyDict(<<>>))),
                  <<"Growth Trend">>, "Growth Score", <<"Overall Growth Score by Day">>)
    \o CommSkillsSheet(SeriesByDate(CommSkillsByDate(rows, 1, PyDict(<<>>))))
    \o CountsSheet(strength_counts, <<"Strengths">>, "Strength")
    \o CountsSheet(development_counts, <<"Development Areas">>, "Development Area")
    \o GoalProgressSheet(goal_progress)

\* ---------------------------------------------------------------- SpecExtract
MaxExtractObs == 3

\* A daily report with its index, score and confidence lines, and a legend
\* further down that repeats the three labels with other values.
ReportWithLegend ==
    <<"Curiosity Response Index:", " ", "9", " ", "/", " ", "1", "0", "\n",
      "Overall Growth Score", ":", " ", "5", "/", "7", " ", "Areas Active", "\n",
      "Confidence level:", " ", "Strong", "\n",
      "Legend", "\n",
      "Curiosity Response Index:", " ", "5", "/", "1", "0", "\n",
      "Overall Growth Score", ":", " ", "3", "/", "7", "\n",
      "Confidence level:", " ", "Weak">>

\* A daily report whose index and score are beyond their scales.
ReportOutOfRange ==
    <<"Curiosity Response Index:", " ", "4", "2", "/", "1", "0", "\n",
      "Overall Growth Score", ":", " ", "9", "/", "7">>

\* A daily report laid out as the template is: the index on the label's line,
\* the growth score on the line after its label.
ReportAsTemplate ==
    <<"Curiosity Response Index:", " ", "1", "0", " ", "/", " ", "1", "0", "\n",
      "Overall Growth Score", ":", " ", "\n",
      "Balanced Growth", " ", "6", "/", "7", " ", "Areas Active">>

\* The observations a month is drawn from; the second and the third are of
\* the same day.
ExtractRows ==
    { [ObsRow(1, "child-1", DateStr(2024, 3, 6))
          EXCEPT !.full_data = FullData(ReportWithLegend)],
      [ObsRow(2, "child-1", DateStr(2024, 3, 5))
          EXCEPT !.full_data = FullData(ReportOutOfRange)],
      [ObsRow(3, "child-1", DateStr(2024, 3, 5))
          EXCEPT !.full_data = FullData(ReportAsTemplate)],
      [ObsRow(4, "child-1", DateStr(2024, 3, 7))
          EXCEPT !.full_data = FullData(ReportWeak)] }

ExtractMonths == UNION {[1 .. n -> ExtractRows] : n \in 0 .. MaxExtractObs}

\* The other arguments of a call: nothing; two goals, two strengths and a
\* development area; one strength only.
ExcelRequests ==
    { [goal_progress |-> <<>>, strength_counts |-> PyDict(<<>>),
       development_counts |-> PyDict(<<>>)],
      [goal_progress |->
          << GoalEntry(GoalRows[1], <<[alignment_score |-> 6], [alignment_score |-> 8]>>),
             GoalEntry(GoalRows[2], <<[alignment_score |-> 8]>>) >>,
       strength_counts |-> PyDict(<<Item(<<"curiosity">>, PyInt(2)),
                                    Item(<<"focus">>, PyInt(1))>>),
       development_counts |-> PyDict(<<Item(<<"patience">>, PyInt(1))>>)],
      [goal_progress |-> <<>>,
       strength_counts |-> PyDict(<<Item(<<"focus">>, PyInt(1))>>),
       development_counts |-> PyDict(<<>>)] }

InitExtract ==
    /\ observations \in ExtractMonths
    /\ goals = <<>>
    /\ goal_alignments = <<>>
    /\ call = NoCall
    /\ response = NoResponse
    /\ result = PyNone

GenerateExcelReport ==
    /\ call = NoCall
    /\ \E request \in ExcelRequests :
          /\ call' = [op |-> "generate_excel_report",
                      goal_progress |-> request.goal_progress,
                      strength_counts |-> request.strength_counts,
                      development_counts |-> request.development_counts]
          /\ result' = generate_excel_report(observations, request.goal_progress,
                                             request.strength_counts,
                                             request.development_counts)
    /\ UNCHANGED <<observations, goals, goal_alignments, response>>

NextExtract == GenerateExcelReport \/ GetCommunicationSkills

SpecExtract == InitExtract /\ [][NextExtract]_vars

\* The rows of the sheet of that name in the workbook, <<>> when it is not there
SheetRows(workbook, name) ==
    IF \E i \in DOMAIN workbook : workbook[i].name = name
    THEN workbook[CHOOSE i \in DOMAIN workbook : workbook[i].name = name].rows
    ELSE <<>>

\* C14: every curiosity index the extraction records lies in 0..10 and every
\* growth score in 0..7, so a label followed by a number beyond its scale
\* leaves the day without an entry.
C14_ScoresInRange ==
    call.op = "generate_excel_report" =>
        /\ \A i \in DOMAIN SheetRows(result, <<"Curiosity Trend">>) :
               SheetRows(result, <<"Curiosity Trend">>)[i][2].v \in 0 .. 10
        /\ \A i \in DOMAIN SheetRows(result, <<"Growth Trend">>) :
               SheetRows(result, <<"Growth Trend">>)[i][2].v \in 0 .. 7

\* The label stands in the text more than once.
Repeated(text, label) == Cardinality({p \in DOMAIN text : text[p] = label}) > 1

\* The first place the label stands at
FirstLabel(text, label) == SetMin({p \in DOMAIN text : text[p] = label})

\* The number written after position p: the digits from the first digit on
RunFrom(text, q) == SetMax({e \in q .. Len(text) : \A r \in q .. e : IsDigit(text[r])})
NumberAfter(text, p) ==
    DigitsValue(text, SetMin({q \in (p + 1) .. Len(text) : IsDigit(text[q])}),
                RunFrom(text, SetMin({q \in (p + 1) .. Len(text) : IsDigit(text[q])})))

\* The rating word written after position p
WordAfter(text, p, vocab) ==
    text[SetMin({q \in (p + 1) .. Len(text) : Lower(text[q]) \in vocab})]

\* The cell in the given column of the sheet's row for the date
CellOfDay(rows, date, column) ==
    rows[CHOOSE i \in DOMAIN rows : rows[i][1] = PyStr(date)][column]

\* The workbook's entries for the date are what the first occurrence of each
\* repeated label in the report reads.
FirstOccurrenceRecorded(text, date, workbook) ==
    /\ Repeated(text, "Curiosity Response Index:") =>
          CellOfDay(SheetRows(workbook, <<"Curiosity Trend">>), date, 2)
              = PyInt(NumberAfter(text, FirstLabel(text, "Curiosity Response Index:")))
    /\ Repeated(text, "Overall Growth Score") =>
          CellOfDay(SheetRows(workbook, <<"Growth Trend">>), date, 2)
              = PyInt(NumberAfter(text, FirstLabel(text, "Overall Growth Score")))
    /\ Repeated(text, "Confidence level:") =>
          CellOfDay(SheetRows(workbook, <<"Communication Skills">>), date, 2)
              = PyStr(<<WordAfter(text, FirstLabel(text, "Confidence level:"),
                                  {"strong", "moderate", "weak"})>>)

\* The summary's confidence is what the first occurrence of the label reads.
FirstOccurrenceSummarised(text, summary) ==
    Repeated(text, "Confidence level:") =>
        DictGet(summary, <<"confidence">>)
            = PyStr(<<Lower(WordAfter(text, FirstLabel(text, "Confidence level:"),
                                      {"strong", "moderate", "weak"}))>>)

\* C15: when a report has the same metric label more than once, each
\* occurrence with its value, the value extracted is the one of the first
\* occurrence in the text: for the curiosity index, the growth score and the
\* confidence rating of the day's entry in the workbook (the day's last
\* observation), and for the confidence rating get_communication_skills
\* summarises from a single observation.
C15_FirstMatchWins ==
    /\ call.op = "generate_excel_report" =>
          \A i \in DOMAIN observations :
              (\A j \in DOMAIN observations : j > i => observations[j].date # observations[i].date)
                  => FirstOccurrenceRecorded(ExcelReport(observations[i]),
                                             observations[i].date, result)
    /\ (call.op = "get_communication_skills" /\ Len(observations) = 1) =>
          FirstOccurrenceSummarised(ExcelReport(observations[1]), result)

\* The report with the legend was the day's only one: the workbook has 9 for
\* the index, 5 for the growth score and Strong for confidence, not the 5, 3
\* and Weak of the legend.
C15_Witness ==
    /\ call.op = "generate_excel_report"
    /\ Len(observations) = 1
    /\ observations[1].id = 1
    /\ Repeated(ExcelReport(observations[1]), "Curiosity Response Index:")
    /\ SheetRows(result, <<"Curiosity Trend">>)
          = << <<PyStr(DateStr(2024, 3, 6)), PyInt(9)>> >>
    /\ SheetRows(result, <<"Growth Trend">>)
          = << <<PyStr(DateStr(2024, 3, 6)), PyInt(5)>> >>
    /\ SheetRows(result, <<"Communication Skills">>)[1][2] = Txt("Strong")

\* ---------------------------------------------------------------- process_file
\* What an outside service did in one upload is an input of the handler; the
\* text of a service's own error message is one chunk.
ServiceMessage == "connection refused"

\* A call that raised Exception(message), or returned a value
Raised(message) == [raises |-> TRUE, message |-> message, value |-> PyNone]
Value(v) == [raises |-> FALSE, message |-> <<>>, value |-> v]

\* extract_text_with_ocr that hands on a blank page as text.
OcrKeepsBlank(ocr) ==
    CASE ocr = "transport error" -> Raised(<<"OCR Error: ", ServiceMessage>>)
      [] ocr = "no results" -> Raised(<<"OCR Error: ", "OCR Error: ", ServiceMessage>>)
      [] ocr = "parse error" -> Raised(<<"OCR Error: ", "OCR Error: ", ServiceMessage>>)
      [] ocr = "blank" -> Value(PyStr(<<" ">>))
      [] ocr = "text" -> Value(PyStr(<<"Asha sorted leaves by colour">>))

\* extract_text_with_ocr on what the OCR service did: the request failed
\* (requests raises, or raise_for_status does), the service answered without
\* ParsedResults, the parsed result carries an ErrorMessage, the parsed text is
\* blank, or there is text.  Every failure leaves as Exception("OCR Error: ...");
\* the two the function raises itself are wrapped a second time by its except.
extract_text_with_ocr(ocr) ==
    CASE ocr = "transport error" -> Raised(<<"OCR Error: ", ServiceMessage>>)
      [] ocr = "no results" -> Raised(<<"OCR Error: ", "OCR Error: ", ServiceMessage>>)
      [] ocr = "parse error" -> Raised(<<"OCR Error: ", "OCR Error: ", ServiceMessage>>)
      [] ocr = "blank" ->
            Raised(<<"OCR Error: ", "No text was detected in the image">>)
      [] ocr = "text" -> Value(PyStr(<<"Asha sorted leaves by colour">>))

\* The object the structuring service returns for a sheet
StructuredData ==
    PyDict(<<Item(<<"studentName">>, Txt("Asha")),
             Item(<<"date">>, PyStr(DateStr(2024, 3, 5))),
             Item(<<"observations">>, Txt("Asha sorted leaves by colour")),
             Item(<<"strengths">>, PyList(<<Txt("focus")>>)),
             Item(<<"themeOfDay">>, Txt("plants"))>>)

\* process_with_groq: the structured object, or Exception("Groq API Error: ...")
process_with_groq(groq) ==
    IF groq = "raises" THEN Raised(<<"Groq API Error: ", ServiceMessage>>)
    ELSE Value(StructuredData)

\* generate_report_from_text: the look-up of the child before the try raises;
\* the generation call raises inside the try, and the function returns the
\* error text; the generation call returns the report.
generate_report_from_text(generation) ==
    CASE generation = "lookup raises" -> Raised(<<ServiceMessage>>)
      [] generation = "raises" ->
            Value(PyStr(<<"Error generating report: ", ServiceMessage>>))
      [] generation = "text" -> Value(PyStr(ReportStrong))

\* The number of polls that answer "processing" before one that does not
MaxPolls == 1

RECURSIVE PollLoop(_, _)
\* Lines 204-227: the polling loop after n polls that answered "processing".
\* The answer that ends it: a status other than 200, status "error", status
\* "completed" (the text, None when the service sent none), or an exception
\* of the request.
PollLoop(svc, n) ==
    IF n < svc.processing THEN PollLoop(svc, n + 1)
    ELSE CASE svc.poll = "raises" ->
                 PyStr(<<"Error during transcription: ", ServiceMessage>>)
           [] svc.poll = "status not 200" ->
                 PyStr(<<"Error checking transcription status: ", ServiceMessage>>)
           [] svc.poll = "error" -> PyStr(<<"Transcription error: ">> \o svc.error)
           [] svc.poll = "completed" -> svc.text

\* transcribe_with_assemblyai on what the transcription service did.  It
\* raises nothing: every failure comes back as a text.
transcribe_with_assemblyai(svc) ==
    IF ~svc.api_key THEN PyStr(<<"Error: AssemblyAI API key is not configured.">>)
    ELSE IF svc.upload = "raises"
    THEN PyStr(<<"Error during transcription: ", ServiceMessage>>)
    ELSE IF svc.upload = "rejected" THEN PyStr(<<"Error uploading audio: ", ServiceMessage>>)
    ELSE IF svc.request = "rejected"
    THEN PyStr(<<"Error requesting transcription: ", ServiceMessage>>)
    ELSE PollLoop(svc, 0)

\* The characters of a chunk, as far as the comparison with min_length = 5
\* needs them: white space is one character, the word Hi two, any other chunk
\* of the model five or more.
ChunkLen(c) == IF c \in Whitespace THEN 1 ELSE IF c = "Hi" THEN 2 ELSE 5

RECURSIVE CharCount(_)
\* len(text), counted up to five
CharCount(text) ==
    IF text = <<>> THEN 0
    ELSE IF ChunkLen(text[1]) + CharCount(Tail(text)) > 5 THEN 5
    ELSE ChunkLen(text[1]) + CharCount(Tail(text))

\* any(indicator in transcript.lower() for indicator in error_indicators): the
\* chunks that hold one of the four phrases
ErrorIndicators ==
    {"Transcription failed", "No audio detected", "Unable to process",
     "Error processing audio"}
HasErrorIndicator(text) == \E i \in DOMAIN text : text[i] \in ErrorIndicators

\* jsonify({"success": False, "error": message})
Failure(message) == [success |-> FALSE, error |-> message, report |-> <<>>]
\* jsonify({"success": True, "message": ..., "report": report, ...})
Success(message, report) == [success |-> TRUE, error |-> <<>>, message |-> message, report |-> report]

\* The id of the row about to be inserted: one the table does not have
NewId(table) == 1 + Len(table)

\* Lines 255-280: the row the image path inserts
OcrRow(table, child_id, structured_data, report, session_date) ==
    [id |-> NewId(table), student_id |-> child_id,
     date |-> DictGetOr(structured_data, <<"date">>, PyStr(session_date)).v,
     observations |-> DictGetOr(structured_data, <<"observations">>, PyStr(<<>>)).v,
     strengths |-> JsonDumps(DictGetOr(structured_data, <<"strengths">>, PyList(<<>>))),
     areas_of_development |->
         JsonDumps(DictGetOr(structured_data, <<"areasOfDevelopment">>, PyList(<<>>))),
     recommendations |->
         JsonDumps(DictGetOr(structured_data, <<"recommendations">>, PyList(<<>>))),
     theme_of_day |-> DictGetOr(structured_data, <<"themeOfDay">>, PyStr(<<>>)).v,
     curiosity_seed |-> DictGetOr(structured_data, <<"curiositySeed">>, PyStr(<<>>)).v,
     full_data |-> JsonDumps(DictSet(structured_data, <<"formatted_report">>, PyStr(report)))]

\* Lines 588-615: the row the audio path inserts.  The sizes, the service name
\* and the time stamps in full_data are left out.
AudioRow(table, child_id, transcript, report, session_date) ==
    [id |-> NewId(table), student_id |-> child_id, date |-> session_date,
     observations |-> transcript,
     strengths |-> JsonDumps(PyList(<<>>)),
     areas_of_development |-> JsonDumps(PyList(<<>>)),
     recommendations |-> JsonDumps(PyList(<<>>)),
     theme_of_day |-> <<>>, curiosity_seed |-> <<>>,
     full_data |-> JsonDumps(PyDict(<<Item(<<"transcript">>, PyStr(transcript)),
                                      Item(<<"report">>, PyStr(report)),
                                      Item(<<"formatted_report">>, PyStr(report))>>))]

\* Lines 292-309 and 631-652: the review is generated and written into the
\* row's full_data; when that raises the row stays as it was inserted.
WithReview(row, reviewed) ==
    IF ~reviewed THEN row
    ELSE [row EXCEPT !.full_data =
             JsonDumps(DictSet(JsonLoads(row.full_data).val, <<"communication_review">>,
                               Txt("review")))]

\* What a run of the handler leaves: the reply, the table, and the outside
\* calls it made, in order.
Outcome(reply, table, calls) == [reply |-> reply, table |-> table, calls |-> calls]

\* The outer except of process_file
Uncaught(message, table, calls) ==
    Outcome(Failure(<<"Error processing observation: ">> \o message), table, calls)

\* log_report_processing(child_id, observer_id, observation_id, report_type),
\* called at lines 381 and 718 from models.database: it writes the processing
\* log to the record store, and the store being unavailable reaches the
\* caller as an exception.
log_report_processing(store) == store = "raises"

\* Lines 282-412, once the report is there: insert, review, processing log,
\* reply.  The log is written outside the try of the review, so its exception
\* reaches the outer except after the row was inserted.
OcrSave(table, in, report) ==
    IF in.insert = "raises"
    THEN Uncaught(<<ServiceMessage>>, table, <<"ocr", "structure", "report", "insert">>)
    ELSE IF log_report_processing(in.log)
    THEN Uncaught(<<ServiceMessage>>,
                  Append(table, WithReview(OcrRow(table, in.child_id, StructuredData, report,
                                                  in.session_date),
                                           in.reviewed)),
                  <<"ocr", "structure", "report", "insert", "log">>)
    ELSE Outcome(Success(<<"OCR observation processed and saved successfully!">>, report),
                 Append(table, WithReview(OcrRow(table, in.child_id, StructuredData, report,
                                                 in.session_date),
                                          in.reviewed)),
                 <<"ocr", "structure", "report", "insert", "log">>)

\* Lines 227-412: the image path
ProcessOcr(table, in) ==
    IF ~in.has_file THEN Outcome(Failure(<<"No file uploaded">>), table, <<>>)
    ELSE IF extract_text_with_ocr(in.ocr).raises
    THEN Uncaught(extract_text_with_ocr(in.ocr).message, table, <<"ocr">>)
    ELSE IF process_with_groq(in.groq).raises
    THEN Uncaught(process_with_groq(in.groq).message, table, <<"ocr", "structure">>)
    ELSE IF generate_report_from_text(in.generation).raises
    THEN Uncaught(generate_report_from_text(in.generation).message, table,
                  <<"ocr", "structure", "report">>)
    ELSE OcrSave(table, in, generate_report_from_text(in.generation).value.v)

\* Lines 586-747, once the report is there: insert, review, processing log,
\* reply
AudioSave(table, in, transcript, report) ==
    IF in.insert = "raises"
    THEN Uncaught(<<ServiceMessage>>, table, <<"transcribe", "report", "insert">>)
    ELSE IF log_report_processing(in.log)
    THEN Uncaught(<<ServiceMessage>>,
                  Append(table, WithReview(AudioRow(table, in.child_id, transcript, report,
                                                    in.session_date),
                                           in.reviewed)),
                  <<"transcribe", "report", "insert", "log">>)
    ELSE Outcome(Success(<<"Audio observation processed and saved successfully!">>, report),
                 Append(table, WithReview(AudioRow(table, in.child_id, transcript, report,
                                                   in.session_date),
                                          in.reviewed)),
                 <<"transcribe", "report", "insert", "log">>)

\* Lines 564-584: the report from the transcript
AudioReport(table, in, transcript) ==
    IF generate_report_from_text(in.generation).raises
    THEN Outcome(Failure(<<"Failed to generate report: ">>
                         \o generate_report_from_text(in.generation).message),
                 table, <<"transcribe", "report">>)
    ELSE AudioSave(table, in, transcript, generate_report_from_text(in.generation).value.v)

\* Lines 513-562: the checks on the transcript
AudioChecks(table, in, transcript) ==
    IF transcript.t = "none" \/ Strip(transcript.v) = <<>>
    THEN Outcome(Failure(<<"Audio transcription returned empty result. Please ensure the audio is clear and contains speech.">>),
                 table, <<"transcribe">>)
    ELSE IF HasErrorIndicator(transcript.v)
    THEN Outcome(Failure(<<"Audio transcription service reported an error. Please try again with clearer audio.">>),
                 table, <<"transcribe">>)
    ELSE IF ~in.force_process /\ CharCount(Strip(transcript.v)) < 5
    THEN Outcome(Failure(<<"Audio transcription too short">>), table, <<"transcribe">>)
    ELSE AudioReport(table, in, transcript.v)

\* Lines 414-747: the audio path.  The file has a name of an audio format and
\* is within the size limit.
ProcessAudio(table, in) ==
    IF ~in.has_file THEN Outcome(Failure(<<"No file uploaded">>), table, <<>>)
    ELSE IF in.storage = "raises"
    THEN Outcome(Failure(<<"Failed to upload audio file: ", ServiceMessage>>), table, <<>>)
    ELSE AudioChecks(table, in, transcribe_with_assemblyai(in))

process_file(table, in) ==
    IF in.processing_mode = "ocr" THEN ProcessOcr(table, in) ELSE ProcessAudio(table, in)

\* ---------------------------------------------------------------- SpecProcess
\* An upload where every service does its work
GoodUpload ==
    [processing_mode |-> "audio", has_file |-> TRUE, child_id |-> "child-1",
     session_date |-> DateStr(2024, 3, 5),
     ocr |-> "text", groq |-> "ok", storage |-> "ok",
     api_key |-> TRUE, upload |-> "ok", request |-> "ok", poll |-> "completed",
     processing |-> 0, error |-> <<"Unknown error">>,
     text |-> PyStr(<<"Asha sorted leaves by colour">>),
     force_process |-> FALSE, generation |-> "text", insert |-> "ok", reviewed |-> TRUE,
     log |-> "ok"]

\* What the transcription service can do in an upload
TranscriptionServices ==
    { [GoodUpload EXCEPT !.api_key = FALSE],
      [GoodUpload EXCEPT !.upload = "raises"],
      [GoodUpload EXCEPT !.upload = "rejected"],
      [GoodUpload EXCEPT !.request = "rejected"] }
    \cup { [GoodUpload EXCEPT !.poll = p, !.processing = n] :
              p \in {"raises", "status not 200"}, n \in 0 .. MaxPolls }
    \cup { [GoodUpload EXCEPT !.poll = "error", !.processing = n, !.error = e] :
              n \in 0 .. MaxPolls, e \in {<<"Unknown error">>, <<"Transcription failed">>} }
    \cup { [GoodUpload EXCEPT !.processing = n, !.text = t] :
              n \in 0 .. MaxPolls,
              t \in {PyStr(<<"Asha sorted leaves by colour">>), PyStr(<<"Hi">>),
                     PyStr(<<" ">>), PyNone} }

\* What the OCR and the structuring service can do in an upload
OcrServices ==
    { [GoodUpload EXCEPT !.processing_mode = "ocr", !.ocr = o, !.groq = g] :
          o \in {"transport error", "no results", "parse error", "blank", "text"},
          g \in {"ok", "raises"} }

ProcessInputs ==
    { [GoodUpload EXCEPT !.processing_mode = m, !.has_file = FALSE] : m \in {"ocr", "audio"} }
    \cup { [GoodUpload EXCEPT !.storage = "raises"] }
    \cup { [s EXCEPT !.force_process = f, !.generation = g, !.insert = i, !.reviewed = r,
                      !.log = l] :
              s \in TranscriptionServices \cup OcrServices, f \in BOOLEAN,
              g \in {"text", "raises", "lookup raises"}, i \in {"ok", "raises"},
              r \in BOOLEAN, l \in {"ok", "raises"} }

\* The table before the upload: empty, or with one observation
ProcessTables ==
    { <<>>,
      << [ObsRow(1, "child-1", DateStr(2024, 3, 4))
             EXCEPT !.full_data = FullData(ReportWeak)] >> }

InitProcess ==
    /\ observations \in ProcessTables
    /\ goals = <<>>
    /\ goal_alignments = <<>>
    /\ call = NoCall
    /\ response = NoResponse
    /\ result = PyNone

\* One upload: the table after it, the reply, and in result the outside calls
\* the handler made.
ProcessFile ==
    /\ call = NoCall
    /\ \E in \in ProcessInputs :
          /\ call' = [op |-> "process_file", in |-> in]
          /\ observations' = process_file(observations, in).table
          /\ response' = process_file(observations, in).reply
          /\ result' = process_file(observations, in).calls
    /\ UNCHANGED <<goals, goal_alignments>>

NextProcess == ProcessFile

SpecProcess == InitProcess /\ [][NextProcess]_vars

\* The upload whose handling the state shows
Uploaded == call.op = "process_file"

\* The text generate_report_from_text returns when the generation call raised
IsErrorReport(text) == StartsWith(text, <<"Error generating report: ">>)

\* C16: the report stored with an observation is never the raw error text:
\* when the generation call of the daily report fails, process_file inserts
\* no observation whose formatted_report is "Error generating report: ...".
C16_NoErrorReportStored ==
    \A i \in DOMAIN observations : ~IsErrorReport(FormattedReport(observations[i]).text)

\* The outside calls the handler made include this one
Called(step) == \E i \in DOMAIN result : result[i] = step

\* C17: when OCR fails for an uploaded image (the request fails, the service
\* answers with an error message or without results, or no text is detected),
\* process_file answers success = false with a message that names the OCR
\* error, calls neither the structuring nor the report service, and leaves
\* the observations table as it was.
C17_OcrFailureReported ==
    [][(/\ call'.op = "process_file"
        /\ call'.in.processing_mode = "ocr"
        /\ call'.in.has_file
        /\ call'.in.ocr # "text")
       => /\ response'.success = FALSE
          /\ StartsWith(response'.error, <<"Error processing observation: ", "OCR Error: ">>)
          /\ result' = <<"ocr">>
          /\ observations' = observations]_vars

\* A blank image was uploaded to a table of one observation: the reply names
\* the error, only the OCR service was called and the table still has its one
\* row.
C17_Witness ==
    /\ Uploaded
    /\ call.in.processing_mode = "ocr" /\ call.in.has_file /\ call.in.ocr = "blank"
    /\ response = Failure(<<"Error processing observation: ", "OCR Error: ",
                            "No text was detected in the image">>)
    /\ result = <<"ocr">>
    /\ observations \in ProcessTables /\ Len(observations) = 1

\* The transcription service failed in this upload: no key, the upload or the
\* request rejected, a poll with a status other than 200 or with status
\* "error", or an exception of a request.
TranscriptionFailed(in) ==
    \/ ~in.api_key
    \/ in.upload # "ok"
    \/ in.request # "ok"
    \/ in.poll # "completed"

\* C18: when the transcription service fails for an uploaded audio file,
\* process_file answers success = false, generates no report from the failure
\* text and inserts no observation whose transcript is the failure text.
C18_TranscriptionFailureReported ==
    (/\ Uploaded
     /\ call.in.processing_mode = "audio" /\ call.in.has_file /\ call.in.storage = "ok"
     /\ TranscriptionFailed(call.in))
    => /\ response.success = FALSE
       /\ ~Called("report")
       /\ \A i \in DOMAIN observations :
              observations[i].observations # transcribe_with_assemblyai(call.in).v

\* ---------------------------------------------------------------- generate_monthly_report
\* The tables of the record store that a monthly report queries.
StoreTables == {"children", "observations", "goals", "goal_alignments"}

\* The children table: one child is on record, the other is not.
ChildName(child_id) == IF child_id = "child-1" THEN <<"Asha">> ELSE <<"Student">>

\* get_month_data inside its try: a query that raises is answered with [].
MonthDataOrEmpty(failing, table, child_id, year, month) ==
    IF "observations" \in failing THEN <<>>
    ELSE get_month_data(table, child_id, year, month)

\* Whether a query of get_goal_progress raises: the goals query is always
\* made, the alignments query once per goal of the child, the observations
\* query once per alignment of such a goal.
GoalQueryRaises(failing, goalTable, alignmentTable, child_id) ==
    LET childGoals == RowsWhere(goalTable, "child_id", child_id)
        aligned == \E g \in DOMAIN childGoals, a \in DOMAIN alignmentTable :
                       alignmentTable[a].goal_id = childGoals[g].id
    IN  \/ "goals" \in failing
        \/ "goal_alignments" \in failing /\ childGoals # <<>>
        \/ "observations" \in failing /\ aligned

\* get_goal_progress inside its try: a query that raises is answered with [].
GoalProgressOrEmpty(failing, obs, goalTable, alignmentTable, child_id, year, month) ==
    IF GoalQueryRaises(failing, goalTable, alignmentTable, child_id) THEN <<>>
    ELSE get_goal_progress(obs, goalTable, alignmentTable, child_id, year, month).v

\* Whether each chart generator returns a figure rather than None.
generate_observation_frequency_chart(rows) == \E i \in DOMAIN rows : rows[i].date # <<>>
generate_strengths_chart(strength_counts) == strength_counts.v # <<>>
generate_development_areas_chart(development_counts) == development_counts.v # <<>>
generate_goal_progress_chart(goal_progress) == goal_progress # <<>>

\* The reply when the route raises: the application's page for status 500.
ServerError == [status |-> 500, success |-> FALSE]

\* The route from the month's rows on: the reply and what the session keeps.
MonthlyReportOf(rows, goal_progress, json_summary) ==
    [reply |->
        [status |-> 200, success |-> TRUE, summary |-> json_summary.text,
         charts |->
            [observations |-> generate_observation_frequency_chart(rows),
             strengths |-> generate_strengths_chart(get_strength_areas(rows)),
             development |-> generate_development_areas_chart(get_development_areas(rows)),
             goals |-> generate_goal_progress_chart(goal_progress)],
         data |->
            [observations_count |-> Len(rows), goals_count |-> Len(goal_progress),
             strengths |-> get_strength_areas(rows),
             development |-> get_development_areas(rows)]],
     session |-> json_summary]

\* The route on rows and goal progress already read, for every summary the
\* rating summaries allow.
MonthlyReportsFrom(rows, goal_progress, child_id, year, month, reply) ==
    { MonthlyReportOf(rows, goal_progress,
          generate_monthly_summary_json_format(rows, goal_progress, ChildName(child_id),
                                               year, month, comm_skills, growth_metrics,
                                               reply)) :
        comm_skills \in get_communication_skills(rows),
        growth_metrics \in get_growth_metrics(rows) }

\* generate_monthly_report: the children query is not guarded, the others
\* are guarded inside get_month_data and get_goal_progress.
generate_monthly_report(failing, obs, goalTable, alignmentTable, child_id, year, month, reply) ==
    IF "children" \in failing
    THEN {[reply |-> ServerError, session |-> PyNone]}
    ELSE MonthlyReportsFrom(
             MonthDataOrEmpty(failing, obs, child_id, year, month),
             GoalProgressOrEmpty(failing, obs, goalTable, alignmentTable,
                                 child_id, year, month),
             child_id, year, month, reply)

\* ---------------------------------------------------------------- SpecReport
MaxReportObs == 1
MaxReportAlignments == 1

ReportRows ==
    { [ObsRow(1, "child-1", DateStr(2024, 3, 5))
          EXCEPT !.strengths = JsonDumps(PyList(<<Str("focus")>>)),
                 !.full_data = FullData(ReportStrong)],
      [ObsRow(2, "child-1", DateStr(2024, 3, 20))
          EXCEPT !.areas_of_development = JsonDumps(PyList(<<Str("patience")>>)),
                 !.full_data = FullData(ReportWeak)] }
ReportMonths == UNION {[1 .. n -> ReportRows] : n \in 0 .. MaxReportObs}

ReportAlignmentRows == [goal_id : {1}, report_id : {1, 2}, alignment_score : {8}]
ReportAlignments ==
    UNION {[1 .. n -> ReportAlignmentRows] : n \in 0 .. MaxReportAlignments}

\* The generation service raises, answers in prose, or follows the structure.
ReportReplies ==
    { [kind |-> "raises", text |-> <<>>],
      [kind |-> "text", text |-> <<"Here", " ", "is", " ", "the", " ", "report", ".">>],
      [kind |-> "text", text |-> SchemaCompletion] }

InitReport ==
    /\ observations \in ReportMonths
    /\ goals = GoalRows
    /\ goal_alignments \in ReportAlignments
    /\ call = NoCall
    /\ response = NoResponse
    /\ result = PyNone

GenerateMonthlyReport ==
    /\ call = NoCall
    /\ \E child_id \in Children, failing \in SUBSET StoreTables, reply \in ReportReplies :
          /\ call' = [op |-> "generate_monthly_report", child_id |-> child_id,
                      year |-> 2024, month |-> 3, failing |-> failing]
          /\ \E out \in generate_monthly_report(failing, observations, goals,
                                                goal_alignments, child_id, 2024, 3, reply) :
                /\ response' = out.reply
                /\ result' = out.session
    /\ UNCHANGED <<observations, goals, goal_alignments>>

NextReport == GenerateMonthlyReport

SpecReport == InitReport /\ [][NextReport]_vars

\* A query that get_month_data or get_goal_progress made has raised.
AggregationQueryFailed ==
    /\ call.op = "generate_monthly_report"
    /\ "children" \notin call.failing
    /\ \/ "observations" \in call.failing
       \/ GoalQueryRaises(call.failing, goals, goal_alignments, call.child_id)

\* C19: when a query for observations, goals or goal alignments fails while
\* a monthly report is put together, the reply is a failure; it is not a
\* successful report.
C19_StoreFailureReported ==
    AggregationQueryFailed => ~(response.status = 200 /\ response.success)

\* ---------------------------------------------------------------- generate_monthly_docx_report
\* bool(x) of a value
Truthy(x) ==
    CASE x.t = "none" -> FALSE
      [] x.t = "bool" -> x.v
      [] x.t = "int" -> x.v # 0
      [] x.t = "float" -> x.v[1] # 0
      [] OTHER -> x.v # <<>>

\* str.title() on the words of the rating vocabularies; any other chunk is
\* taken as already in title case.
TitleChunk(c) ==
    CASE c = "no data" -> "No Data" [] c = "No data" -> "No Data"
      [] c = "strong" -> "Strong" [] c = "moderate" -> "Moderate" [] c = "weak" -> "Weak"
      [] c = "clear" -> "Clear" [] c = "unclear" -> "Unclear"
      [] c = "active" -> "Active" [] c = "passive" -> "Passive"
      [] c = "logical" -> "Logical" [] c = "disorganized" -> "Disorganized"
      [] c = "excellent" -> "Excellent" [] c = "good" -> "Good" [] c = "fair" -> "Fair"
      [] c = "needs work" -> "Needs Work"
      [] OTHER -> c
Title(s) == [i \in DOMAIN s |-> TitleChunk(s[i])]

\* What an f-string writes for a value: a str as it is, an int in decimal,
\* None as the word None.
FormatValue(x) ==
    CASE x.t = "str" -> x.v
      [] x.t = "int" -> IntToStr(x.v)
      [] x.t = "none" -> <<"None">>
      [] OTHER -> JsonDumps(x)

\* The blocks of a document.  The pictograph in front of a heading's words
\* is left out of its text.
Heading(text, level) ==
    [kind |-> "heading", text |-> text, level |-> level, style |-> "", rows |-> <<>>]
Paragraph(text) ==
    [kind |-> "paragraph", text |-> text, level |-> 0, style |-> "", rows |-> <<>>]
BulletParagraph(item) ==
    [kind |-> "paragraph", text |-> <<"* ">> \o FormatValue(item), level |-> 0,
     style |-> "List Bullet", rows |-> <<>>]
Table(rows) ==
    [kind |-> "table", text |-> <<>>, level |-> 0, style |-> "Light Grid Accent 1",
     rows |-> rows]

\* Lines 1056-1063: a str is parsed, and becomes {} when it does not parse;
\* any other value is taken as it is.
SummaryData(summary_json) ==
    IF summary_json.t = "str"
    THEN (IF JsonLoads(summary_json.v).ok THEN JsonLoads(summary_json.v).val
          ELSE PyDict(<<>>))
    ELSE summary_json

\* Lines 1065-1084: the title and the student information
DocxHeader(summary_data) ==
    << Heading(<<"Monthly Learning Progress Report">>, 0),
       Paragraph(<<"Student: ">>
                 \o FormatValue(DictGetOr(summary_data, <<"studentName">>, Txt("N/A")))
                 \o <<"\n", "Period: ">>
                 \o FormatValue(DictGetOr(summary_data, <<"date">>, Txt("N/A")))
                 \o <<"\n", "Report Type: ">>
                 \o FormatValue(DictGetOr(summary_data, <<"className">>,
                                          Txt("Monthly Progress Summary")))),
       Paragraph(<<>>) >>

Bullets(value) == [i \in DOMAIN IterItems(value) |-> BulletParagraph(IterItems(value)[i])]

\* Lines 1086-1098
InsightsPlaceholders ==
    << Paragraph(<<"* Consistent engagement observed throughout the month">>),
       Paragraph(<<"* Learning patterns show steady development">>),
       Paragraph(<<"* Areas of strength continue to flourish">>) >>
DocxInsights(summary_data) ==
    LET progress_insights == DictGetOr(summary_data, <<"progressInsights">>, PyList(<<>>))
    IN  <<Heading(<<"Progress Insights">>, 1)>>
        \o (IF Truthy(progress_insights) THEN Bullets(progress_insights)
            ELSE InsightsPlaceholders)
        \o <<Paragraph(<<>>)>>

\* Lines 1100-1108
StrengthsPlaceholders ==
    << Paragraph(<<"* No specific strengths documented for this period">>) >>
DocxStrengths(summary_data) ==
    LET strengths == DictGetOr(summary_data, <<"strengths">>, PyList(<<>>))
    IN  <<Heading(<<"Strengths Observed">>, 1)>>
        \o (IF Truthy(strengths) THEN Bullets(strengths) ELSE StrengthsPlaceholders)
        \o <<Paragraph(<<>>)>>

\* any(v != "no data" for v in ratings.values())
AnyRated(ratings) == \E i \in DOMAIN ratings.v : ratings.v[i].v # PyStr(<<"no data">>)

RECURSIVE RatingTableRows(_, _, _, _)
\* The rows of a rating table after its header row: one for each listed key
\* whose rating, in title case, is not "No Data".
RatingTableRows(ratings, keys, labels, i) ==
    IF i > Len(keys) THEN <<>>
    ELSE LET assessment == Title(DictGetOr(ratings, <<keys[i]>>, Txt("No data")).v)
         IN  (IF assessment # <<"No Data">> THEN <<<<labels[i], assessment>>>> ELSE <<>>)
             \o RatingTableRows(ratings, keys, labels, i + 1)

\* A rating section: heading, table and empty paragraph, or nothing at all.
RatingSection(ratings, heading, column, keys, labels) ==
    IF Truthy(ratings) /\ AnyRated(ratings)
    THEN << Heading(<<heading>>, 1),
            Table(<<<<column, "Assessment">>>> \o RatingTableRows(ratings, keys, labels, 1)),
            Paragraph(<<>>) >>
    ELSE <<>>

CommSkillLabels ==
    <<"Confidence Level", "Clarity of Thought", "Participation & Engagement",
      "Sequence of Explanation">>

\* Lines 1110-1150
DocxCommSkills(summary_data) ==
    RatingSection(DictGetOr(summary_data, <<"communicationSkills">>, PyDict(<<>>)),
                  "Communication Skills Assessment", "Communication Skill",
                  CommSkillNames, CommSkillLabels)

\* Lines 1152-1198
DocxGrowthMetrics(summary_data) ==
    RatingSection(DictGetOr(summary_data, <<"growthMetrics">>, PyDict(<<>>)),
                  "Growth Metrics", "Growth Area", GrowthAreaNames, GrowthAreaNames)

\* Lines 1200-1210
DevelopmentPlaceholders ==
    << Paragraph(<<"* No specific development areas identified for this period">>) >>
DocxDevelopment(summary_data) ==
    LET development_areas == DictGetOr(summary_data, <<"areasOfDevelopment">>, PyList(<<>>))
    IN  <<Heading(<<"Areas for Development">>, 1)>>
        \o (IF Truthy(development_areas) THEN Bullets(development_areas)
            ELSE DevelopmentPlaceholders)
        \o <<Paragraph(<<>>)>>

\* Lines 1212-1222
RecommendationPlaceholders ==
    << Paragraph(<<"* Continue current learning trajectory">>),
       Paragraph(<<"* Maintain engagement in observed strength areas">>),
       Paragraph(<<"* Focus on identified development areas">>) >>
DocxRecommendations(summary_data) ==
    LET recommendations == DictGetOr(summary_data, <<"recommendations">>, PyList(<<>>))
    IN  <<Heading(<<"Recommendations">>, 1)>>
        \o (IF Truthy(recommendations) THEN Bullets(recommendations)
            ELSE RecommendationPlaceholders)
        \o <<Paragraph(<<>>)>>

\* Lines 1224-1233: the time of generation is written as one chunk
DocxFooter == << Paragraph(<<>>), Paragraph(<<"Report generated on: ", "<now>">>) >>

\* Whether a statement of the function raises: .get on a value that is not a
\* dict, a loop over a value that cannot be iterated, .values() on ratings
\* that are not a dict, .title() on a rating that is not a str.
ListRaises(summary_data, key) ==
    LET value == DictGetOr(summary_data, <<key>>, PyList(<<>>))
    IN  Truthy(value) /\ ~IsIterable(value)
RatingsRaise(summary_data, key, keys) ==
    LET ratings == DictGetOr(summary_data, <<key>>, PyDict(<<>>))
    IN  /\ Truthy(ratings)
        /\ \/ ~IsDict(ratings)
           \/ /\ AnyRated(ratings)
              /\ \E i \in DOMAIN keys :
                    DictGetOr(ratings, <<keys[i]>>, Txt("No data")).t # "str"
DocxRaises(summary_data) ==
    \/ ~IsDict(summary_data)
    \/ \E key \in {"progressInsights", "strengths", "areasOfDevelopment", "recommendations"} :
          ListRaises(summary_data, key)
    \/ RatingsRaise(summary_data, "communicationSkills", CommSkillNames)
    \/ RatingsRaise(summary_data, "growthMetrics", GrowthAreaNames)

DocxBlocks(summary_data) ==
    DocxHeader(summary_data) \o DocxInsights(summary_data) \o DocxStrengths(summary_data)
    \o DocxCommSkills(summary_data) \o DocxGrowthMetrics(summary_data)
    \o DocxDevelopment(summary_data) \o DocxRecommendations(summary_data) \o DocxFooter

DocxOf(summary_data) ==
    IF DocxRaises(summary_data) THEN [raises |-> TRUE, doc |-> <<>>]
    ELSE [raises |-> FALSE, doc |-> DocxBlocks(summary_data)]

\* The observations, goal progress and counts the function is also given are
\* not read by it.
generate_monthly_docx_report(summary_json) == DocxOf(SummaryData(summary_json))

\* ---------------------------------------------------------------- SpecDocx
MaxDocItems == 1

\* The items a list section may carry
DocItemLists ==
    UNION {[1 .. n -> {Txt("Asks questions"), Txt("Shares ideas")}] : n \in 0 .. MaxDocItems}

\* Ratings of a summary: none rated, one rated, one written as None.
CommRatings ==
    { RatingDict(CommSkillNames, <<"no data", "no data", "no data", "no data">>),
      RatingDict(CommSkillNames, <<"strong", "no data", "no data", "no data">>),
      DictSet(RatingDict(CommSkillNames, <<"strong", "no data", "no data", "no data">>),
              <<"clarity">>, PyNone) }
GrowthRatings ==
    { RatingDict(GrowthAreaNames, [i \in DOMAIN GrowthAreaNames |-> "no data"]),
      RatingDict(GrowthAreaNames,
                 [i \in DOMAIN GrowthAreaNames |-> IF i = 2 THEN "excellent" ELSE "no data"]) }

DocSummaryOf(insights, strengths, comm, growth, development, recommendations) ==
    PyDict(<< Item(<<"studentName">>, Txt("Asha")),
              Item(<<"progressInsights">>, PyList(insights)),
              Item(<<"strengths">>, PyList(strengths)),
              Item(<<"communicationSkills">>, comm),
              Item(<<"growthMetrics">>, growth),
              Item(<<"areasOfDevelopment">>, PyList(development)),
              Item(<<"recommendations">>, PyList(recommendations)) >>)

\* Summaries as the download route hands them on (parsed), the same as text,
\* a text that is not JSON, a text that is a JSON array, and an object
\* without any of the sections.
DocSummaries ==
    LET parsed == { DocSummaryOf(i, s, c, g, d, r) :
                       i \in DocItemLists, s \in DocItemLists, c \in CommRatings,
                       g \in GrowthRatings, d \in DocItemLists, r \in DocItemLists }
    IN  parsed
        \cup { PyStr(JsonDumps(DocSummaryOf(i, <<>>, c, g, <<>>, i))) :
                  i \in DocItemLists, c \in CommRatings, g \in GrowthRatings }
        \cup { PyStr(<<"Here", " ", "is", " ", "the", " ", "report", ".">>),
               PyStr(JsonDumps(PyList(<<PyInt(1)>>))),
               PyDict(<<>>) }

InitDocx ==
    /\ observations = <<>>
    /\ goals = <<>>
    /\ goal_alignments = <<>>
    /\ call = NoCall
    /\ response = NoResponse
    /\ result = PyNone

GenerateMonthlyDocxReport ==
    /\ call = NoCall
    /\ \E summary_json \in DocSummaries :
          /\ call' = [op |-> "generate_monthly_docx_report", summary_json |-> summary_json]
          /\ result' = generate_monthly_docx_report(summary_json)
    /\ UNCHANGED <<observations, goals, goal_alignments, response>>

NextDocx == GenerateMonthlyDocxReport

SpecDocx == InitDocx /\ [][NextDocx]_vars

DocxReturned == call.op = "generate_monthly_docx_report" /\ ~result.raises

\* The sections of the narrative document: the key of the summary and the
\* words of the heading.
DocSections ==
    { <<"progressInsights", "Progress Insights">>,
      <<"strengths", "Strengths Observed">>,
      <<"communicationSkills", "Communication Skills Assessment">>,
      <<"growthMetrics", "Growth Metrics">>,
      <<"areasOfDevelopment", "Areas for Development">>,
      <<"recommendations", "Recommendations">> }

HasHeading(doc, words) ==
    \E b \in DOMAIN doc : doc[b].kind = "heading" /\ doc[b].text = <<words>>

\* Whether the summary carries at least one item for a section: a list with
\* an element, ratings with one that is not "no data".
CarriesItems(summary_data, key) ==
    /\ HasKey(summary_data, <<key>>)
    /\ LET value == DictGet(summary_data, <<key>>)
       IN  IF key \in {"communicationSkills", "growthMetrics"}
           THEN IsDict(value) /\ AnyRated(value)
           ELSE Truthy(value)

Placeholders ==
    SeqRange(InsightsPlaceholders) \cup SeqRange(StrengthsPlaceholders)
    \cup SeqRange(DevelopmentPlaceholders) \cup SeqRange(RecommendationPlaceholders)

\* C20: in the document generate_monthly_docx_report builds, the heading of
\* each of the six sections is present exactly when the summary carries at
\* least one item for that section, and no placeholder paragraph is written.
C20_EmptySectionsOmitted ==
    DocxReturned =>
        /\ \A s \in DocSections :
              HasHeading(result.doc, s[2])
                  <=> CarriesItems(SummaryData(call.summary_json), s[1])
        /\ \A b \in DOMAIN result.doc : result.doc[b] \notin Placeholders

\* ---------------------------------------------------------------- sheets of the workbook
HasSheet(workbook, name) == \E i \in DOMAIN workbook : workbook[i].name = name

\* The chart title of the sheet of that name, <<>> when it has no chart
SheetChart(workbook, name) ==
    workbook[CHOOSE i \in DOMAIN workbook : workbook[i].name = name].chart

\* Some observation's report yields a curiosity index / a growth score.
SomeCuriosity == \E i \in DOMAIN observations :
                    SearchCuriosity(ExcelReport(observations[i])).found
SomeGrowth == \E i \in DOMAIN observations :
                 SearchGrowth(ExcelReport(observations[i])).found

\* C21: the workbook of generate_excel_report always has the Summary sheet;
\* it has the Curiosity Trend sheet, with its line chart, exactly when some
\* observation yielded an index, the Growth Trend sheet, with its chart,
\* exactly when some observation yielded a score, and the Strengths,
\* Development Areas and Goal Progress sheets exactly when the matching
\* argument is not empty; no sheet has a chart over no rows.
C21_SheetsMatchData ==
    call.op = "generate_excel_report" =>
        /\ HasSheet(result, <<"Summary">>)
        /\ HasSheet(result, <<"Curiosity Trend">>) <=> SomeCuriosity
        /\ HasSheet(result, <<"Curiosity Trend">>) =>
              SheetChart(result, <<"Curiosity Trend">>) # <<>>
        /\ HasSheet(result, <<"Growth Trend">>) <=> SomeGrowth
        /\ HasSheet(result, <<"Growth Trend">>) =>
              SheetChart(result, <<"Growth Trend">>) # <<>>
        /\ HasSheet(result, <<"Strengths">>) <=> call.strength_counts.v # <<>>
        /\ HasSheet(result, <<"Development Areas">>) <=> call.development_counts.v # <<>>
        /\ HasSheet(result, <<"Goal Progress">>) <=> call.goal_progress # <<>>
        /\ \A i \in DOMAIN result : result[i].chart # <<>> => result[i].rows # <<>>

\* A workbook with the curiosity sheet and its chart but no growth sheet, with
\* the strengths sheet but no goal sheet.
C21_Witness ==
    /\ call.op = "generate_excel_report"
    /\ HasSheet(result, <<"Curiosity Trend">>)
    /\ SheetChart(result, <<"Curiosity Trend">>) # <<>>
    /\ ~HasSheet(result, <<"Growth Trend">>)
    /\ HasSheet(result, <<"Strengths">>)
    /\ ~HasSheet(result, <<"Goal Progress">>)

\* ---------------------------------------------------------------- embedded objects
\* The first balanced {...} span of a text that parses as a JSON object: from
\* the first opening brace to the nearest closing brace that completes an
\* object.  <<>> when the text has none.
ObjectSpanEnds(text) ==
    LET first == SetMin({i \in DOMAIN text : text[i] = "{"})
    IN  {j \in first .. Len(text) :
            /\ text[j] = "}"
            /\ JsonLoads(SubSeq(text, first, j)).ok}
FirstObjectSpan(text) ==
    IF ~\E i \in DOMAIN text : text[i] = "{" THEN <<>>
    ELSE IF ObjectSpanEnds(text) = {} THEN <<>>
    ELSE SubSeq(text, SetMin({i \in DOMAIN text : text[i] = "{"}),
                SetMin(ObjectSpanEnds(text)))

\* The completion does not parse as it is, but has an object inside it.
ObjectAmidProse ==
    /\ SummaryReturned
    /\ result.path # "exception fallback"
    /\ response.kind = "text"
    /\ ~JsonLoads(Cleaned(response.text)).ok
    /\ FirstObjectSpan(Cleaned(response.text)) # <<>>

\* C22: when the completion, its fences taken off, fails to parse but holds a
\* JSON object with other text around it, generate_monthly_summary_json_format
\* returns that object and not the fallback.
C22_EmbeddedObjectReturned ==
    ObjectAmidProse =>
        /\ result.path # "parse fallback"
        /\ JsonLoads(result.text).val
              = JsonLoads(FirstObjectSpan(Cleaned(response.text))).val

\* ---------------------------------------------------------------- the two fallbacks
\* A completion that is not JSON.
ProseReply == [kind |-> "text", text |-> <<"Here", " ", "is", " ", "the", " ", "report", ".">>]

\* What the same call returns when the service answers in prose.
SameCallWithProse ==
    generate_monthly_summary_json_format(observations, call.goal_progress,
                                         call.child_name, call.year, call.month,
                                         call.comm_skills, call.growth_metrics, ProseReply)

\* C23: when the generation call raises, generate_monthly_summary_json_format
\* returns the fallback it returns, for the same observations, goal progress,
\* child name and period, after a completion that is not JSON.
C23_SameFallback ==
    (SummaryReturned /\ response.kind = "raises") =>
        JsonLoads(result.text).val = JsonLoads(SameCallWithProse.text).val

\* ---------------------------------------------------------------- series by day
\* The dates of a sheet's rows, in the order of the rows
SheetDates(workbook, name) ==
    [i \in DOMAIN SheetRows(workbook, name) |-> SheetRows(workbook, name)[i][1].v]

\* The last observation, in the order they are gone through, of a date
LastOfDay(date) == SetMax({i \in DOMAIN observations : observations[i].date = date})

\* The rows of a sheet have strictly ascending dates.
AscendingDates(workbook, name) ==
    \A i \in DOMAIN SheetDates(workbook, name) : \A j \in DOMAIN SheetDates(workbook, name) :
        i < j => /\ StrLessEq(SheetDates(workbook, name)[i], SheetDates(workbook, name)[j])
                 /\ SheetDates(workbook, name)[i] # SheetDates(workbook, name)[j]

\* The sheet's entry for each day is what the last observation of that day
\* yields: its value, or no entry when it yields none.
CuriosityLastWins(workbook) ==
    \A k \in DOMAIN observations :
        LET date == observations[k].date
            m == SearchCuriosity(ExcelReport(observations[LastOfDay(date)]))
            days == {i \in DOMAIN SheetDates(workbook, <<"Curiosity Trend">>) :
                        SheetDates(workbook, <<"Curiosity Trend">>)[i] = date}
        IN  IF m.found
            THEN /\ days # {}
                 /\ CellOfDay(SheetRows(workbook, <<"Curiosity Trend">>), date, 2)
                       = PyInt(m.value)
            ELSE days = {}
GrowthLastWins(workbook) ==
    \A k \in DOMAIN observations :
        LET date == observations[k].date
            m == SearchGrowth(ExcelReport(observations[LastOfDay(date)]))
            days == {i \in DOMAIN SheetDates(workbook, <<"Growth Trend">>) :
                        SheetDates(workbook, <<"Growth Trend">>)[i] = date}
        IN  IF m.found
            THEN /\ days # {}
                 /\ CellOfDay(SheetRows(workbook, <<"Growth Trend">>), date, 2)
                       = PyInt(m.value)
            ELSE days = {}

\* C24: the series by day that generate_excel_report charts have strictly
\* ascending dates, one entry for a date, and for a date shared by several
\* observations the entry of the last of them, also when that last one
\* yields no value.
C24_LastOfDayWins ==
    call.op = "generate_excel_report" =>
        /\ AscendingDates(result, <<"Curiosity Trend">>)
        /\ AscendingDates(result, <<"Growth Trend">>)
        /\ CuriosityLastWins(result)
        /\ GrowthLastWins(result)

\* ---------------------------------------------------------------- SpecPoll
\* transcribe_with_assemblyai step by step: the call is at one of its three
\* requests (upload, transcript, poll) or has returned.  rounds counts the
\* polls that were followed by time.sleep(2), up to MaxRounds; the code keeps
\* no such count.
MaxRounds == 3

LanguageCodes == {"en", "hi", "mr", "pa"}
PendingStatuses == {"queued", "processing"}
TranscriptTexts == {PyStr(<<"Asha sorted leaves by colour">>), PyStr(<<"Hi">>), PyNone}

InitPoll ==
    /\ observations = <<>>
    /\ goals = <<>>
    /\ goal_alignments = <<>>
    /\ call = NoCall
    /\ response = NoResponse
    /\ result = PyNone

Transcribing(pc, language_code, rounds) ==
    [op |-> "transcribe_with_assemblyai", pc |-> pc, language_code |-> language_code,
     rounds |-> rounds]

\* Lines 167-168: without a key the call returns at once.
StartTranscription ==
    /\ call = NoCall
    /\ \E language_code \in LanguageCodes, api_key \in BOOLEAN :
          IF api_key
          THEN /\ call' = Transcribing("upload", language_code, 0)
               /\ result' = result
          ELSE /\ call' = Transcribing("done", language_code, 0)
               /\ result' = PyStr(<<"Error: AssemblyAI API key is not configured.">>)
    /\ UNCHANGED <<observations, goals, goal_alignments, response>>

\* Lines 176-187: the upload request
UploadAudio ==
    /\ call.op = "transcribe_with_assemblyai" /\ call.pc = "upload"
    /\ \E answer \in {"raises", "rejected", "ok"} :
          /\ response' = [kind |-> "upload", answer |-> answer, status |-> ""]
          /\ CASE answer = "raises" ->
                     /\ call' = [call EXCEPT !.pc = "done"]
                     /\ result' = PyStr(<<"Error during transcription: ", ServiceMessage>>)
               [] answer = "rejected" ->
                     /\ call' = [call EXCEPT !.pc = "done"]
                     /\ result' = PyStr(<<"Error uploading audio: ", ServiceMessage>>)
               [] answer = "ok" ->
                     /\ call' = [call EXCEPT !.pc = "request"]
                     /\ result' = result
    /\ UNCHANGED <<observations, goals, goal_alignments>>

\* Lines 189-202: the transcription request
RequestTranscript ==
    /\ call.op = "transcribe_with_assemblyai" /\ call.pc = "request"
    /\ \E answer \in {"raises", "rejected", "ok"} :
          /\ response' = [kind |-> "transcript", answer |-> answer, status |-> ""]
          /\ CASE answer = "raises" ->
                     /\ call' = [call EXCEPT !.pc = "done"]
                     /\ result' = PyStr(<<"Error during transcription: ", ServiceMessage>>)
               [] answer = "rejected" ->
                     /\ call' = [call EXCEPT !.pc = "done"]
                     /\ result' = PyStr(<<"Error requesting transcription: ", ServiceMessage>>)
               [] answer = "ok" ->
                     /\ call' = [call EXCEPT !.pc = "poll"]
                     /\ result' = result
    /\ UNCHANGED <<observations, goals, goal_alignments>>

\* Lines 204-226: one round of the while loop.  The service raises, answers
\* with a status code other than 200, or answers 200 with a status; only
\* "completed" and "error" end the loop, any other status is followed by
\* time.sleep(2) and the next round.
PollTranscript ==
    /\ call.op = "transcribe_with_assemblyai" /\ call.pc = "poll"
    /\ \/ /\ response' = [kind |-> "poll", answer |-> "raises", status |-> ""]
          /\ call' = [call EXCEPT !.pc = "done"]
          /\ result' = PyStr(<<"Error during transcription: ", ServiceMessage>>)
       \/ /\ response' = [kind |-> "poll", answer |-> "rejected", status |-> ""]
          /\ call' = [call EXCEPT !.pc = "done"]
          /\ result' = PyStr(<<"Error checking transcription status: ", ServiceMessage>>)
       \/ \E text \in TranscriptTexts :
             /\ response' = [kind |-> "poll", answer |-> "ok", status |-> "completed"]
             /\ call' = [call EXCEPT !.pc = "done"]
             /\ result' = text
       \/ \E error \in {<<"Unknown error">>, <<"Transcription failed">>} :
             /\ response' = [kind |-> "poll", answer |-> "ok", status |-> "error"]
             /\ call' = [call EXCEPT !.pc = "done"]
             /\ result' = PyStr(<<"Transcription error: ">> \o error)
       \/ \E status \in PendingStatuses :
             /\ response' = [kind |-> "poll", answer |-> "ok", status |-> status]
             /\ call' = [call EXCEPT !.rounds = IF @ < MaxRounds THEN @ + 1 ELSE @]
             /\ result' = result
    /\ UNCHANGED <<observations, goals, goal_alignments>>

NextPoll == StartTranscription \/ UploadAudio \/ RequestTranscript \/ PollTranscript

SpecPoll == InitPoll /\ [][NextPoll]_vars

\* The call keeps running: a request that is due is made, and the sleep
\* between two polls ends.
FairSpecPoll == SpecPoll /\ WF_vars(NextPoll)

\* C25: a call of transcribe_with_assemblyai returns, whatever the service
\* answers, also when every poll is answered 200 with a status that is
\* neither "completed" nor "error".
C25_TranscriptionReturns ==
    (call.op = "transcribe_with_assemblyai") ~> (call.op = "transcribe_with_assemblyai" /\ call.pc = "done")

\* ---------------------------------------------------------------- generate_report_from_text (prompt)
\* value == "word" for a Python value and a str literal
IsWord(value, word) == value.t = "str" /\ value.v = <<word>>

\* get_pronouns(gender)
get_pronouns(gender) ==
    IF IsWord(gender, "male")
    THEN [subject |-> "he", object |-> "him", possessive |-> "his"]
    ELSE IF IsWord(gender, "female")
    THEN [subject |-> "she", object |-> "her", possessive |-> "her"]
    ELSE [subject |-> "they", object |-> "them", possessive |-> "their"]

NeutralPronouns == [subject |-> "they", object |-> "them", possessive |-> "their"]

\* No child: what a look-up that finds nothing gives
NoChild == [found |-> FALSE, id |-> "", name |-> PyNone, gender |-> PyNone]
FoundChild(row) == [found |-> TRUE, id |-> row.id, name |-> row.name, gender |-> row.gender]

\* get_child_by_id(child_id): the stored child of that id, or None
get_child_by_id(children, child_id) ==
    IF \E i \in DOMAIN children : PyStr(<<children[i].id>>) = child_id
    THEN FoundChild(children[SetMin({i \in DOMAIN children :
                                        PyStr(<<children[i].id>>) = child_id})])
    ELSE NoChild

\* Lines 320-334: the first stored child of that name, or None
ChildByName(children, student_name) ==
    IF \E i \in DOMAIN children : (children[i].name.t = student_name.t /\ children[i].name.v = student_name.v)
    THEN FoundChild(children[SetMin({i \in DOMAIN children :
                                        (children[i].name.t = student_name.t /\ children[i].name.v = student_name.v)})])
    ELSE NoChild

\* Lines 316-336: the child the report is about
PromptChild(user_info, children) ==
    LET child_id == DictGetOr(user_info, <<"child_id">>, PyNone)
        student_name == DictGetOr(user_info, <<"student_name">>, Txt("Student"))
    IN  IF ~Truthy(child_id) /\ ~IsWord(student_name, "Student")
        THEN ChildByName(children, student_name)
        ELSE IF Truthy(child_id) THEN get_child_by_id(children, child_id)
        ELSE NoChild

\* Lines 339-343
PromptPronouns(child) ==
    IF child.found /\ Truthy(child.gender) THEN get_pronouns(child.gender)
    ELSE NeutralPronouns

\* Lines 346-347: the name after "Ensure we have a valid student name"
PromptStudentName(user_info, child) ==
    LET student_name == DictGetOr(user_info, <<"student_name">>, Txt("Student"))
    IN  IF ~Truthy(student_name) \/ IsWord(student_name, "Student")
        THEN (IF child.found /\ Truthy(child.name) THEN child.name ELSE Txt("Student"))
        ELSE student_name

\* One value the f-string of lines 349-436 writes into the prompt: the line
\* it is on, what it is, and its text.
Injected(line, slot, value) == [line |-> line, slot |-> slot, text |-> value]

\* The values written into the prompt, in the order of the text.  Line 372
\* reads user_info["student_name"] itself, not the name of lines 346-347.
PromptInjections(text_content, user_info, student_name, pronouns) ==
    << Injected(356, "name", FormatValue(student_name)),
       Injected(357, "pronouns", <<pronouns.subject, pronouns.object, pronouns.possessive>>),
       Injected(358, "name", FormatValue(student_name)),
       Injected(358, "pronouns", <<pronouns.subject, pronouns.object, pronouns.possessive>>),
       Injected(360, "name", FormatValue(student_name)),
       Injected(372, "name", FormatValue(DictGet(user_info, <<"student_name">>))),
       Injected(392, "text_content", text_content),
       Injected(396, "name", FormatValue(student_name)),
       Injected(397, "date",
                FormatValue(DictGetOr(user_info, <<"session_date">>, Txt("Today")))),
       Injected(411, "name", FormatValue(student_name)),
       Injected(415, "name", FormatValue(student_name)),
       Injected(418, "name", FormatValue(student_name)) >>

\* The prompt generate_report_from_text builds, or the KeyError of line 372
\* when user_info has no student_name.
ReportPrompt(text_content, user_info, children) ==
    IF ~HasKey(user_info, <<"student_name">>)
    THEN [raises |-> TRUE, prompt |-> <<>>]
    ELSE [raises |-> FALSE,
          prompt |-> PromptInjections(
                         text_content, user_info,
                         PromptStudentName(user_info, PromptChild(user_info, children)),
                         PromptPronouns(PromptChild(user_info, children)))]

\* ---------------------------------------------------------------- SpecPrompt
MaxChildren == 2

\* The rows the children table may hold
ChildRows ==
    << [id |-> "child-1", name |-> Txt("Asha"), gender |-> Txt("female")],
       [id |-> "child-1", name |-> Txt("Asha"), gender |-> PyNone],
       [id |-> "child-2", name |-> Txt("Ravi"), gender |-> Txt("male")],
       [id |-> "child-2", name |-> Txt("Ravi"), gender |-> Txt("other")] >>
\* A children table, by the rows it is made of
ChildrenPicks == UNION {[1 .. n -> DOMAIN ChildRows] : n \in 0 .. MaxChildren}
ChildrenTable(pick) == [i \in DOMAIN pick |-> ChildRows[pick[i]]]

\* user_info as the routes build it: with or without a child id, the name
\* field missing, null, empty, the placeholder, or a name; with or without
\* the date of the session.
ChildIdOptions == <<Txt("child-1"), Txt("child-9")>>
StudentNameOptions == <<PyNone, PyStr(<<>>), Txt("Student"), Txt("Asha"), Txt("Ravi")>>
SessionDateOptions == <<PyStr(DateStr(2024, 3, 5))>>
\* The item of a key for option i, no item for option 0
OptionalItem(key, options, i) == IF i = 0 THEN <<>> ELSE <<Item(<<key>>, options[i])>>
UserInfoOf(c, n, d) ==
    PyDict(OptionalItem("child_id", ChildIdOptions, c)
           \o OptionalItem("student_name", StudentNameOptions, n)
           \o OptionalItem("session_date", SessionDateOptions, d))

\* The transcript names somebody else.
SpokenText == <<"Meera", " ", "helped", " ", "her", " ", "brother">>

InitPrompt ==
    /\ observations = <<>>
    /\ goals = <<>>
    /\ goal_alignments = <<>>
    /\ call = NoCall
    /\ response = NoResponse
    /\ result = PyNone

BuildReportPrompt ==
    /\ call = NoCall
    /\ \E c \in 0 .. Len(ChildIdOptions), n \in 0 .. Len(StudentNameOptions),
          d \in 0 .. Len(SessionDateOptions), pick \in ChildrenPicks :
          /\ call' = [op |-> "generate_report_from_text",
                      user_info |-> UserInfoOf(c, n, d),
                      children |-> ChildrenTable(pick)]
          /\ result' = ReportPrompt(SpokenText, UserInfoOf(c, n, d), ChildrenTable(pick))
    /\ UNCHANGED <<observations, goals, goal_alignments, response>>

NextPrompt == BuildReportPrompt

SpecPrompt == InitPrompt /\ [][NextPrompt]_vars

\* The name the request supplies: none when the field is missing, null,
\* empty or the placeholder.
SuppliedName(user_info) ==
    LET n == DictGetOr(user_info, <<"student_name">>, PyNone)
    IN  IF Truthy(n) /\ ~IsWord(n, "Student") THEN n ELSE PyNone

\* The texts the prompt gives as the student's name
PromptNames(prompt) ==
    {prompt[i].text : i \in {j \in DOMAIN prompt : prompt[j].slot = "name"}}

\* C26: the prompt of generate_report_from_text is built whatever the name
\* field of the request is, every place that names the student carries the
\* one resolved name (the supplied name, else the stored child's name, else
\* "Student"), and the pronouns are he/him/his for a stored gender male,
\* she/her/her for female, they/them/their otherwise or without a child.
C26_OneResolvedName ==
    call.op = "generate_report_from_text" =>
        LET child == PromptChild(call.user_info, call.children)
            resolved == IF SuppliedName(call.user_info).t # "none"
                        THEN SuppliedName(call.user_info)
                        ELSE IF child.found /\ Truthy(child.name) THEN child.name
                        ELSE Txt("Student")
            triple == IF child.found /\ IsWord(child.gender, "male")
                      THEN <<"he", "him", "his">>
                      ELSE IF child.found /\ IsWord(child.gender, "female")
                      THEN <<"she", "her", "her">>
                      ELSE <<"they", "them", "their">>
        IN  /\ ~result.raises
            /\ PromptNames(result.prompt) = {resolved.v}
            /\ \A i \in DOMAIN result.prompt :
                  result.prompt[i].slot = "pronouns" => result.prompt[i].text = triple

\* ------------------------------------------------------------------ C27, C29
\* The upload got as far as the processing log: its insert was carried out
RowInserted == Uploaded /\ Called("log")

\* The table without its last row
Before(table) == SubSeq(table, 1, Len(table) - 1)

\* The row the upload handed to insert (observation_data of lines 255-280 and
\* 588-615)
InsertedRow ==
    IF call.in.processing_mode = "ocr"
    THEN OcrRow(Before(observations), call.in.child_id, StructuredData,
                generate_report_from_text(call.in.generation).value.v, call.in.session_date)
    ELSE AudioRow(Before(observations), call.in.child_id,
                  transcribe_with_assemblyai(call.in).v,
                  generate_report_from_text(call.in.generation).value.v,
                  call.in.session_date)

\* C27: an observation record is immutable once created: an upload appends
\* one row to the observations table, the rows that were there stay as they
\* were, and no later step of the request changes the row it inserted.
C27_RecordImmutable ==
    RowInserted => /\ Before(observations) \in ProcessTables
                   /\ observations[Len(observations)] = InsertedRow

\* C29: process_file is all-or-nothing towards the caller: when it answers
\* success = false the request inserted no observation, whichever step
\* failed, the steps after the insert included.
C29_FailureInsertsNothing ==
    (Uploaded /\ response.success = FALSE) => observations \in ProcessTables

\* ------------------------------------------------------------------ C28
\* The keys a selection holds: those of a dict, the strings of a list
SelectedKeys(selection) ==
    IF selection.t = "dict" THEN {selection.v[i].k : i \in DOMAIN selection.v}
    ELSE {selection.v[i].v : i \in DOMAIN selection.v}

\* No entry of the frequency table that the selection leaves out has a
\* strictly higher count than an entry the selection holds.
HoldsHighestCounts(selection, table) ==
    \A i \in DOMAIN table.v :
        table.v[i].k \notin SelectedKeys(selection) =>
            \A k \in SelectedKeys(selection) :
                HasKey(table, k) => table.v[i].v.v <= DictGet(table, k).v

\* data of the chart descriptor of the given type in suggestedGraphs, an empty
\* dict when the summary has no such chart
ChartData(v, type) ==
    LET charts == DictGet(v, <<"suggestedGraphs">>).v
        found == {i \in DOMAIN charts : DictGet(charts[i], <<"type">>) = Txt(type)}
    IN  IF found = {} THEN PyDict(<<>>)
        ELSE DictGet(charts[CHOOSE i \in found : TRUE], <<"data">>)

\* C28: the top selections of the monthly summary hold the entries with the
\* highest counts: in topStrengths and developmentFocus of monthlyMetrics, in
\* the data of the strength distribution, top five strengths and development
\* priority charts, and in the strengths and areasOfDevelopment lists of the
\* fallback, no entry of the frequency table of get_strength_areas or
\* get_development_areas for the same observations is left out that has a
\* strictly higher count than an entry included.
C28_TopSelectionsHighest ==
    (SummaryReturned /\ result.path = "parse fallback") =>
        LET summary == ResultValue
            strengths == get_strength_areas(observations)
            developments == get_development_areas(observations)
        IN  /\ summary.t = "dict" /\ strengths.t = "dict" /\ developments.t = "dict"
            /\ HoldsHighestCounts(DictGet(DictGet(summary, <<"monthlyMetrics">>),
                                          <<"topStrengths">>), strengths)
            /\ HoldsHighestCounts(DictGet(DictGet(summary, <<"monthlyMetrics">>),
                                          <<"developmentFocus">>), developments)
            /\ HoldsHighestCounts(ChartData(summary, "pie_chart"), strengths)
            /\ HoldsHighestCounts(ChartData(summary, "donut_chart"), strengths)
            /\ HoldsHighestCounts(ChartData(summary, "horizontal_bar"), developments)
            /\ HoldsHighestCounts(DictGet(summary, <<"strengths">>), strengths)
            /\ HoldsHighestCounts(DictGet(summary, <<"areasOfDevelopment">>), developments)

\* ---------------------------------------------------------------- SpecRemind
\* trigger='interval', minutes=2
IntervalSeconds == 120
\* misfire_grace_time=30: a run that is up to 30 seconds late is still made
GraceSeconds == 30
\* Times are seconds since midnight of one day, on a grid as wide as the
\* grace time.
TickSeconds == GraceSeconds
\* The runs of the job that are followed
MaxRuns == 5
\* The observations submitted while the job is followed
MaxRemindObs == 1

\* now_ist.strftime('%Y-%m-%d') of the day that is followed
Today == DateStr(2024, 3, 5)

\* scheduled_reports: two active schedules, the second with seconds in its
\* time, and one that is switched off.  scheduled_time is given as the parts
\* that split(':') yields.
ScheduledReports ==
    << [id |-> "sched-1", observer_id |-> "observer-1", child_id |-> "child-1",
        scheduled_time |-> <<19, 0, 0>>, is_active |-> TRUE],
       [id |-> "sched-2", observer_id |-> "observer-2", child_id |-> "child-2",
        scheduled_time |-> <<19, 1, 30>>, is_active |-> TRUE],
       [id |-> "sched-3", observer_id |-> "observer-1", child_id |-> "child-2",
        scheduled_time |-> <<19, 0, 0>>, is_active |-> FALSE] >>

\* The rows of users and children the job looks up
ObserverEmail(observer_id) ==
    IF observer_id = "observer-1" THEN <<"observer-1@example.org">>
    ELSE <<"observer-2@example.org">>
ReminderChildName(child_id) == IF child_id = "child-1" THEN <<"Asha">> ELSE <<"Ravi">>

\* Lines 118-125: today's session of a schedule, seconds and microseconds set
\* to zero; the session of tomorrow when that time is not after now.
SessionTime(sched, now) ==
    LET today == 3600 * sched.scheduled_time[1] + 60 * sched.scheduled_time[2]
    IN  IF today <= now THEN today + 86400 ELSE today

\* Line 135: 29.0 <= mins_to_session <= 31.0
InReminderWindow(sched, now) ==
    /\ 29 * 60 <= SessionTime(sched, now) - now
    /\ SessionTime(sched, now) - now <= 31 * 60

\* Lines 139-142: the observations of the child by the observer dated today
ObservedToday(table, sched) ==
    \E i \in DOMAIN table :
        /\ table[i].student_id = sched.child_id
        /\ table[i].username = sched.observer_id
        /\ table[i].date = Today

\* session_dt_ist.strftime('%I:%M %p')
TwelveHourClock(seconds) ==
    LET hour == (seconds \div 3600) % 24
        minute == (seconds \div 60) % 60
    IN  Pad2(IF hour % 12 = 0 THEN 12 ELSE hour % 12) \o <<":">> \o Pad2(minute)
        \o <<" ", IF hour < 12 THEN "AM" ELSE "PM">>

\* The reminder one run sends for one schedule, with the time it was sent at
ReminderEmail(sched, now) ==
    [to |-> ObserverEmail(sched.observer_id),
     child_name |-> ReminderChildName(sched.child_id),
     scheduled_time |-> TwelveHourClock(SessionTime(sched, now)),
     schedule |-> sched.id, session |-> SessionTime(sched, now), at |-> now]

RECURSIVE RemindersOfRun(_, _, _, _, _)
\* Lines 103-177: the loop over the active schedules at time now.  store says
\* whether the query of the observations raises during this run (the except
\* of line 176 goes on with the next schedule), mail whether
\* send_reminder_email returns True.
RemindersOfRun(table, now, store, mail, i) ==
    IF i > Len(ScheduledReports) THEN <<>>
    ELSE LET sched == ScheduledReports[i]
             send == /\ sched.is_active
                     /\ InReminderWindow(sched, now)
                     /\ store = "ok"
                     /\ ~ObservedToday(table, sched)
                     /\ mail = "sent"
         IN  (IF send THEN <<ReminderEmail(sched, now)>> ELSE <<>>)
             \o RemindersOfRun(table, now, store, mail, i + 1)

ScheduleIds == {ScheduledReports[i].id : i \in DOMAIN ScheduledReports}

\* The job as the scheduler holds it: the time of its next run, the time of
\* the last thing that happened, and the runs made.
ReminderJob(fire, now, runs) ==
    [op |-> "check_and_send_observer_reminders", fire |-> fire, now |-> now, runs |-> runs]

\* The first run is due one interval after the application started, which is
\* at any time of the grid within two minutes from 18:24:00.
FirstRuns == {66240 + IntervalSeconds + k * TickSeconds :
                  k \in 0 .. (IntervalSeconds \div TickSeconds) - 1}

\* How late a run is made
Latencies == {k * TickSeconds : k \in 0 .. (GraceSeconds \div TickSeconds)}

InitRemind ==
    /\ observations = <<>>
    /\ goals = <<>>
    /\ goal_alignments = <<>>
    /\ \E fire \in FirstRuns : call = ReminderJob(fire, fire - IntervalSeconds, 0)
    /\ response = NoResponse
    /\ result = <<>>

\* One run of check_and_send_observer_reminders, made late by at most the
\* grace time; the next run is due one interval after the time this one was
\* due.  result collects the reminders sent.
CheckAndSendObserverReminders ==
    /\ call.runs < MaxRuns
    /\ \E late \in Latencies, store \in {"ok", "raises"}, mail \in {"sent", "fails"} :
          /\ call' = ReminderJob(call.fire + IntervalSeconds, call.fire + late, call.runs + 1)
          /\ response' = [kind |-> "reminders", store |-> store, mail |-> mail]
          /\ result' = result \o RemindersOfRun(observations, call.fire + late, store, mail, 1)
    /\ UNCHANGED <<observations, goals, goal_alignments>>

\* A run that is later than the grace time is not made
MisfiredRun ==
    /\ call.runs < MaxRuns
    /\ call' = ReminderJob(call.fire + IntervalSeconds, call.fire + GraceSeconds + TickSeconds,
                           call.runs + 1)
    /\ response' = [kind |-> "misfire"]
    /\ UNCHANGED <<observations, goals, goal_alignments, result>>

\* The observer of the first schedule submits an observation of the child
\* between two runs (the insert of process_file, observer.py lines 255-288):
\* dated by the session date of the form, stamped with the time of the insert.
SubmitObservation ==
    /\ Len(observations) < MaxRemindObs
    /\ \E date \in {Today, DateStr(2024, 3, 4)} :
          observations' = Append(observations,
              [id |-> 1 + Len(observations), student_id |-> "child-1",
               username |-> "observer-1", date |-> date,
               timestamp |-> call.now + (TickSeconds \div 2)])
    /\ UNCHANGED <<goals, goal_alignments, call, response, result>>

NextRemind == CheckAndSendObserverReminders \/ MisfiredRun \/ SubmitObservation

SpecRemind == InitRemind /\ [][NextRemind]_vars

\* The schedule a reminder was sent for
ScheduleOf(email) ==
    ScheduledReports[CHOOSE i \in DOMAIN ScheduledReports :
                         ScheduledReports[i].id = email.schedule]

\* C30: across the runs of check_and_send_observer_reminders at most one
\* reminder is sent for a schedule and session, and no reminder is sent at a
\* time when an observation of that child by that observer dated today is in
\* the store.
C30_OneReminderPerSession ==
    /\ \A i, j \in DOMAIN result :
           (result[i].schedule = result[j].schedule /\ result[i].session = result[j].session)
               => i = j
    /\ \A i \in DOMAIN result, k \in DOMAIN observations :
           (/\ observations[k].student_id = ScheduleOf(result[i]).child_id
            /\ observations[k].username = ScheduleOf(result[i]).observer_id
            /\ observations[k].date = Today)
               => result[i].at < observations[k].timestamp

====
